---- MODULE Spec2Model ----
(***************************************************************************)
(* Student-performance prediction: the ml-prediction edge function         *)
(* (remote/local dispatch), the local scoring variants of the forms, and   *)
(* the forms' handleStudentSelect and handlePredict.                       *)
(*                                                                         *)
(* Numbers.  JavaScript numbers are modelled in fixed point:               *)
(*   - a score or a confidence is an integer count of 1/10000 (so 8.00 is  *)
(*     80000 and Math.round(x * 100) / 100 rounds to a multiple of 100);   *)
(*   - g1, g2 are in half points (slider step 0.5): 12 is 24;              *)
(*   - effort_score, participation_index, motivation_level are in tenths   *)
(*     (slider step 0.1): 7.5 is 75;                                       *)
(*   - emotional_sentiment, stress_level are in hundredths (step 0.01);    *)
(*   - studytime, absences, attendance_rate and the fields of a student    *)
(*     record are whole numbers; alcohol_consumption is in halves.         *)
(* Math.log and Math.pow(x, 1.5) are tabulated to 4 decimals.              *)
(* A text is the sequence of the pieces the code concatenates; the emoji   *)
(* that opens a piece is left out.                                         *)
(***************************************************************************)
EXTENDS Integers, Sequences, FiniteSets, TLC

VARIABLES
    \* ---- supabase/functions/ml-prediction/index.ts: one invocation ----
    pc,          \* where the handler is
    request,     \* the request body: student_id and features (index.ts:43)
    remote,      \* what the fetch of index.ts:57 came to
    sent,        \* the request that fetch sent to the Colab backend
    prediction,  \* `let prediction` (index.ts:51)
    predictions, \* rows this invocation inserted into 'predictions'
    alerts,      \* rows this invocation inserted into 'alerts'
    response,    \* the Response returned
    \* ---- the scoring functions of the forms, applied to an input ----
    fn,          \* which scoring function is applied
    data,        \* its argument `data` (the form's formData)
    studentData, \* its argument `studentData` (the selected student record)
    useRealData, \* the form's useRealData state (v6.0)
    random,      \* what Math.random() returns (v1.0), in 1/10000
    analytics,   \* the argument `analytics` of v4.0 (the form's customAnalytics)
    studentName, \* the argument `studentName` of v4.0
    \* ---- the forms: handleStudentSelect and handlePredict ----
    selectedStudentId, \* the form's selectedStudentId (selectedStudent in v1.0, v2.0)
    loading,     \* the form's loading state
    toast,       \* the title of the last toast shown ("" when none)
    completed,   \* whether onPredictionComplete() was called
    result,      \* what the function returned
    \* ---- components/AlertsPanel.tsx ----
    resolvingAlerts, \* the panel's resolvingAlerts state: a set of alert ids
    resolves,    \* per alert: its update request and the calls of onAlertsUpdate
    \* ---- pages/Dashboard.tsx ----
    dashboard,   \* the page's students, predictions, alerts and loading states
    fetches      \* the calls of fetchData, in the order they started

handlerVars == <<pc, request, remote, sent, prediction, predictions, alerts, response>>
inputVars == <<fn, data, studentData, useRealData, random, analytics, studentName>>
scoreVars == <<fn, data, studentData, useRealData, random, analytics, studentName,
               result>>
formVars == <<selectedStudentId, loading, toast, completed>>
pageVars == <<resolvingAlerts, resolves, dashboard, fetches>>
vars == <<pc, request, remote, sent, prediction, predictions, alerts, response,
          fn, data, studentData, useRealData, random, analytics, studentName,
          result, selectedStudentId, loading, toast, completed,
          resolvingAlerts, resolves, dashboard, fetches>>

-----------------------------------------------------------------------------
(* JavaScript values *)

\* `undefined` where a number is expected (a field the object does not have)
Undefined == -99999999
\* `undefined` where a string is expected
UndefinedStr == "undefined"
\* `undefined` where a text (sequence of pieces) is expected
UndefinedText == <<"undefined">>
\* the value of a variable not assigned yet
None == [none |-> TRUE]

\* x || y on numbers: undefined and 0 are falsy
OrNum(x, y) == IF x = Undefined \/ x = 0 THEN y ELSE x
\* x || y on strings: undefined and "" are falsy
OrStr(x, y) == IF x = UndefinedStr \/ x = "" THEN y ELSE x
\* x || y on texts
OrText(x, y) == IF x = UndefinedText \/ x = <<>> THEN y ELSE x
\* x < n: a comparison with undefined (NaN) is false
Lt(x, n) == x # Undefined /\ x < n

Max(a, b) == IF a >= b THEN a ELSE b
Min(a, b) == IF a <= b THEN a ELSE b
Abs(a) == IF a < 0 THEN -a ELSE a

\* Math.round(x * 100) / 100 on a number in 1/10000: Math.round is floor(x + 0.5)
Round2(x) == ((x + 50) \div 100) * 100
\* Math.round(x) on a number in 1/10000
Round0(x) == ((x + 5000) \div 10000) * 10000

\* Math.log(n) * 10000 for n = 1..16, to the nearest integer
LogTable == <<0, 6931, 10986, 13863, 16094, 17918, 19459, 20794,
              21972, 23026, 23979, 24849, 25649, 26391, 27081, 27726>>
MathLog(n) == LogTable[n]

\* Math.pow(e / 100, 1.5) * 10000 for e = 0..100 (e is effort_score in tenths,
\* so e / 100 is effort_score / 10), to the nearest integer; index e + 1
PowTable == <<0, 10, 28, 52, 80, 112, 147, 185, 226, 270, 316, 365, 416, 469,
    524, 581, 640, 701, 764, 828, 894, 962, 1032, 1103, 1176, 1250, 1326, 1403,
    1482, 1562, 1643, 1726, 1810, 1896, 1983, 2071, 2160, 2251, 2342, 2436,
    2530, 2625, 2722, 2820, 2919, 3019, 3120, 3222, 3326, 3430, 3536, 3642,
    3750, 3858, 3968, 4079, 4191, 4303, 4417, 4532, 4648, 4764, 4882, 5000,
    5120, 5240, 5362, 5484, 5607, 5732, 5857, 5983, 6109, 6237, 6366, 6495,
    6626, 6757, 6889, 7022, 7155, 7290, 7425, 7562, 7699, 7837, 7975, 8115,
    8255, 8396, 8538, 8681, 8824, 8969, 9114, 9259, 9406, 9553, 9702, 9850,
    10000>>
MathPow15(e) == PowTable[e + 1]

\* the pieces of `${items.join(sep)}`
RECURSIVE Join(_, _)
Join(items, sep) ==
    IF Len(items) = 0 THEN <<>>
    ELSE IF Len(items) = 1 THEN <<items[1]>>
    ELSE <<items[1], sep>> \o Join(Tail(items), sep)

\* interventions.push(item) when cond holds
PushIf(list, cond, item) == IF cond THEN Append(list, item) ELSE list

-----------------------------------------------------------------------------
(* supabase/functions/ml-prediction/index.ts: the local fallback *)

\* generateFallbackIntervention(score, features), index.ts:191-205
generateFallbackIntervention(score, f) ==
    LET i1 == PushIf(<<>>, f.studytime < 3, "Increase study time")
        i2 == PushIf(i1, f.attendance_rate < 80, "Improve attendance")
        i3 == PushIf(i2, f.effort_score < 60, "Motivational support needed")
        i4 == PushIf(i3, f.stress_level > 70, "Stress management required")
        interventions ==
              PushIf(i4, f.emotional_sentiment < 40, "Emotional support needed")
    IN  IF Len(interventions) = 0
        THEN <<"Student performing well. Continue current approach.">>
        ELSE <<"Recommended interventions: ">> \o Join(interventions, ", ") \o <<".">>

\* index.ts:163-172: the sum of the terms, before clamping
LocalRawScore(f) ==
    LET academicWeight == f.g1 * 1500 + f.g2 * 2000
        studyFactor == (MathLog(f.studytime + 1) * 25) \div 10
        attendanceFactor == f.attendance_rate * 300
        effortFactor == f.effort_score * 800
        emotionalFactor == f.emotional_sentiment * 400
        motivationFactor == f.motivation_level * 500
        stressPenalty == f.stress_level * (-200)
    IN  academicWeight + studyFactor + attendanceFactor + effortFactor
        + emotionalFactor + motivationFactor + stressPenalty

\* index.ts:174
LocalClamp(x) == Max(0, Min(200000, x))

\* index.ts:178-180
LocalRisk(predicted_score) ==
    IF predicted_score < 80000 THEN "high"
    ELSE IF predicted_score < 120000 THEN "medium"
    ELSE "low"

\* index.ts:176
LocalConfidence(f) == Min(950000, 700000 + f.participation_index * 2000)

\* generateLocalPrediction(features), index.ts:161-189
generateLocalPrediction(f) ==
    LET predicted_score == LocalClamp(LocalRawScore(f))
    IN  [ predicted_score |-> Round2(predicted_score),
          confidence_level |-> Round0(LocalConfidence(f)),
          risk_level |-> LocalRisk(predicted_score),
          intervention_summary |-> generateFallbackIntervention(predicted_score, f),
          model_version |-> "local-fallback-v2.0" ]

-----------------------------------------------------------------------------
(* supabase/functions/ml-prediction/index.ts: the handler *)

\* index.ts:90: the confidence of a remote result that carries none
DefaultConfidence == 850000

\* index.ts:91: the risk of a remote result that carries none
ColabRisk(predicted_score) ==
    IF Lt(predicted_score, 100000) THEN "high"
    ELSE IF Lt(predicted_score, 140000) THEN "medium"
    ELSE "low"

\* index.ts:88-95: the prediction built from a 2xx response's body
ColabPrediction(colabResult, f) ==
    [ predicted_score |-> OrNum(colabResult.predicted_score, colabResult.prediction),
      confidence_level |-> OrNum(colabResult.confidence, DefaultConfidence),
      risk_level |-> OrStr(colabResult.risk_level, ColabRisk(colabResult.predicted_score)),
      intervention_summary |->
          OrText(colabResult.intervention,
                 generateFallbackIntervention(
                     OrNum(colabResult.predicted_score, colabResult.prediction), f)),
      model_version |-> "colab-backend-v1.0",
      backend_source |-> "colab" ]

\* the catch block tagging its result like the try block does
FallbackPredictionMistagged(f) ==
    generateLocalPrediction(f) @@ [backend_source |-> "colab"]

\* index.ts:99-105: the catch block
FallbackPrediction(f) ==
    generateLocalPrediction(f) @@ [backend_source |-> "fallback"]

\* JSON null: a body that parses, whose property reads throw a TypeError
JsonNull == [null |-> TRUE]

\* the form's defaults, sent as `features` (unnamed/part_002:67-83)
DefaultFeatures ==
    [ age |-> 16, studytime |-> 2, g1 |-> 20, g2 |-> 24, absences |-> 3,
      effort_score |-> 75, emotional_sentiment |-> 60, participation_index |-> 82,
      family_support |-> 3, health_score |-> 4, social_activity |-> 3,
      alcohol_consumption |-> 2, attendance_rate |-> 85, motivation_level |-> 70,
      stress_level |-> 40 ]

\* the feature vectors a request may carry (within the sliders' ranges)
RequestFeatures ==
    { [DefaultFeatures EXCEPT !.g1 = g[1], !.g2 = g[2], !.studytime = st,
                              !.effort_score = em[1], !.motivation_level = em[2],
                              !.emotional_sentiment = ss[1], !.stress_level = ss[2],
                              !.attendance_rate = ar, !.absences = ab] :
        g \in {<<0, 0>>, <<20, 24>>, <<40, 40>>}, st \in {1, 5},
        em \in {<<10, 10>>, <<75, 70>>}, ss \in {<<0, 100>>, <<60, 40>>},
        ar \in {50, 85}, ab \in {3, 10} }

RequestStudentIds == {"custom_analytics"}

\* the bodies a 2xx response may carry: any JSON object, or null
ColabBodies ==
    [ predicted_score : {Undefined, 0, 90000, 130000, 250000},
      prediction : {Undefined, 110000},
      confidence : {Undefined, 0, 900000},
      risk_level : {UndefinedStr, "high"},
      intervention : {UndefinedText, <<>>, <<"Remote advice.">>} ]
    \cup {JsonNull}

\* the failures of a fetch that was given no AbortSignal.timeout
RemoteFailuresNoTimeout ==
    { [kind |-> "status", status |-> 500], [kind |-> "network"],
      [kind |-> "unparseable"] }

\* the ways the remote call fails (index.ts:96-99)
RemoteFailures ==
    { [kind |-> "status", status |-> 500], [kind |-> "timeout"],
      [kind |-> "network"], [kind |-> "unparseable"] }

HandlerInit ==
    /\ pc = "start"
    /\ request = None
    /\ remote = None
    /\ sent = None
    /\ prediction = None
    /\ predictions = <<>>
    /\ alerts = <<>>
    /\ response = None

\* JSON.stringify of an array element: a number as it is, undefined as null
JsonElement(x) == IF x = Undefined THEN "null" ELSE x

\* the body with its two grades in the other order
ColabRequestBodySwapped(f) ==
    [ features |->
        << JsonElement(f.age), JsonElement(f.studytime), JsonElement(f.g2),
           JsonElement(f.g1), JsonElement(f.absences), JsonElement(f.effort_score),
           JsonElement(f.emotional_sentiment), JsonElement(f.participation_index),
           JsonElement(f.family_support), JsonElement(f.health_score),
           JsonElement(f.social_activity), JsonElement(f.alcohol_consumption),
           JsonElement(f.attendance_rate), JsonElement(f.motivation_level),
           JsonElement(f.stress_level) >> ]

\* index.ts:62-80: JSON.stringify({ features: [ ... ] })
ColabRequestBody(f) ==
    [ features |->
        << JsonElement(f.age), JsonElement(f.studytime), JsonElement(f.g1),
           JsonElement(f.g2), JsonElement(f.absences), JsonElement(f.effort_score),
           JsonElement(f.emotional_sentiment), JsonElement(f.participation_index),
           JsonElement(f.family_support), JsonElement(f.health_score),
           JsonElement(f.social_activity), JsonElement(f.alcohol_consumption),
           JsonElement(f.attendance_rate), JsonElement(f.motivation_level),
           JsonElement(f.stress_level) >> ]

\* index.ts:57-82: the arguments of fetch
ColabRequest(f) ==
    [ path |-> "/predict",
      method |-> "POST",
      contentType |-> "application/json",
      body |-> ColabRequestBody(f),
      timeout |-> 10000 ]

\* index.ts:33-35
HandleOptions ==
    /\ pc = "start"
    /\ response' = [status |-> 200, body |-> None]
    /\ pc' = "done"
    /\ UNCHANGED <<request, remote, sent, prediction, predictions, alerts>>

\* index.ts:43-82: the body is read and the remote call is made
ReceiveRequest ==
    /\ pc = "start"
    /\ \E sid \in RequestStudentIds, f \in RequestFeatures :
          /\ request' = [student_id |-> sid, features |-> f]
          /\ sent' = ColabRequest(f)
    /\ pc' = "fetching"
    /\ UNCHANGED <<remote, prediction, predictions, alerts, response>>

\* index.ts:84-95, and 99-105 when reading the body's properties throws
RemoteSucceeds ==
    /\ pc = "fetching"
    /\ \E body \in ColabBodies :
          /\ remote' = [kind |-> "ok", status |-> 200, body |-> body]
          /\ prediction' = IF body = JsonNull
                           THEN FallbackPrediction(request.features)
                           ELSE ColabPrediction(body, request.features)
    /\ pc' = "dispatched"
    /\ UNCHANGED <<request, sent, predictions, alerts, response>>

\* the dispatch without its inner try/catch: a remote failure reaches the outer
\* catch and is answered with 500
RemoteFailsPropagated ==
    /\ pc = "fetching"
    /\ \E failure \in RemoteFailures : remote' = failure
    /\ response' = [status |-> 500,
                    body |-> [error |-> "Prediction failed"]]
    /\ pc' = "done"
    /\ UNCHANGED <<request, sent, prediction, predictions, alerts>>

\* index.ts:96-105: non-2xx, timeout, network error, unparseable body
RemoteFails ==
    /\ pc = "fetching"
    /\ \E failure \in RemoteFailures : remote' = failure
    /\ prediction' = FallbackPrediction(request.features)
    /\ pc' = "dispatched"
    /\ UNCHANGED <<request, sent, predictions, alerts, response>>

\* index.ts:108-116: the row sent to 'predictions'
PredictionRow ==
    prediction @@ request.features @@ [student_id |-> request.student_id]

\* index.ts:108-116, insert succeeded
InsertPrediction ==
    /\ pc = "dispatched"
    /\ predictions' = Append(predictions, PredictionRow)
    /\ pc' = "stored"
    /\ UNCHANGED <<request, remote, sent, prediction, alerts, response>>

\* the failed insert with the alert of a high risk written before the answer
InsertPredictionFailsAlertFirst ==
    /\ pc = "dispatched"
    /\ alerts' = IF prediction.risk_level = "high"
                 THEN Append(alerts, [ student_id |-> request.student_id,
                                       alert_type |-> "performance_risk",
                                       severity |-> "high" ])
                 ELSE alerts
    /\ response' = [status |-> 500,
                    body |-> [error |-> "Prediction failed"]]
    /\ pc' = "done"
    /\ UNCHANGED <<request, remote, sent, prediction, predictions>>

\* index.ts:118-121 and 146-158: insertError is thrown and answered with 500
InsertPredictionFails ==
    /\ pc = "dispatched"
    /\ response' = [status |-> 500,
                    body |-> [error |-> "Prediction failed"]]
    /\ pc' = "done"
    /\ UNCHANGED <<request, remote, sent, prediction, predictions, alerts>>

\* index.ts:124-133
CreateAlert ==
    /\ pc = "stored"
    /\ prediction.risk_level = "high"
    /\ alerts' = Append(alerts,
          [ student_id |-> request.student_id,
            alert_type |-> "performance_risk",
            severity |-> "high",
            message |-> <<"HIGH RISK: Student ", request.student_id,
                          " predicted score ", prediction.predicted_score, "/20. ">>
                        \o prediction.intervention_summary ])
    /\ pc' = "alerted"
    /\ UNCHANGED <<request, remote, sent, prediction, predictions, response>>

\* index.ts:124-133, the insert into alerts resolved with an error: the result
\* of the await is not looked at, so the handler goes on to its response
CreateAlertFails ==
    /\ pc = "stored"
    /\ prediction.risk_level = "high"
    /\ pc' = "alerted"
    /\ UNCHANGED <<request, remote, sent, prediction, predictions, alerts, response>>

\* index.ts:137-144
Respond ==
    /\ \/ pc = "alerted"
       \/ pc = "stored" /\ prediction.risk_level # "high"
    /\ response' = [status |-> 200,
                    body |-> [ success |-> TRUE,
                               prediction |-> predictions[Len(predictions)],
                               backend_used |-> prediction.backend_source ]]
    /\ pc' = "done"
    /\ UNCHANGED <<request, remote, sent, prediction, predictions, alerts>>

-----------------------------------------------------------------------------
(* unnamed/part_000:1-316: PredictionForm, model v1.0 *)

\* part_000:44-52
MockWeightedScore(d) ==
    d.g1 * 1500 + d.g2 * 1750 + d.studytime * 12000 + d.effort_score * 800
    + d.participation_index * 600 + (10 - d.absences) * 4000
    + d.emotional_sentiment * 500

\* part_000:54
MockClamp(x) == Max(0, Min(200000, x))

\* part_000:55: Math.random() * 30 + 70
MockConfidence(r) == r * 30 + 700000

\* part_000:57-59
MockRisk(predicted_score) ==
    IF predicted_score < 100000 THEN "high"
    ELSE IF predicted_score < 140000 THEN "medium"
    ELSE "low"

\* generateInterventionSummary(data, score, risk), part_000:82-96
generateInterventionSummary(d, score, risk) ==
    LET i1 == PushIf(<<>>, d.studytime < 3, "Increase study time allocation")
        i2 == PushIf(i1, d.absences > 5, "Address attendance issues")
        i3 == PushIf(i2, d.effort_score < 60, "Motivational support needed")
        i4 == PushIf(i3, d.participation_index < 60, "Encourage class participation")
        interventions ==
              PushIf(i4, d.emotional_sentiment < 40, "Emotional support recommended")
    IN  IF Len(interventions) = 0
        THEN <<"Student is performing well. Continue current approach.">>
        ELSE <<"Recommended interventions: ">> \o Join(interventions, ", ")
             \o <<". ">>
             \o <<IF risk = "high" THEN "Immediate attention required."
                  ELSE "Monitor progress closely.">>

\* the shap_explanation of part_000:68-78 (it has no total_contribution)
ShapV1(d) ==
    [ features |->
        [ g1 |-> d.g1 * 1500,
          g2 |-> d.g2 * 1750,
          studytime |-> d.studytime * 12000,
          effort_score |-> d.effort_score * 800,
          participation_index |-> d.participation_index * 600,
          absences |-> (10 - d.absences) * 4000,
          emotional_sentiment |-> d.emotional_sentiment * 500 ] ]

\* mockMLPrediction(data), part_000:42-80; r is what Math.random() returns
mockMLPrediction(d, r) ==
    LET predicted_score == MockClamp(MockWeightedScore(d))
        risk_level == MockRisk(predicted_score)
    IN  [ predicted_score |-> Round2(predicted_score),
          confidence_level |-> Round2(MockConfidence(r)),
          risk_level |-> risk_level,
          intervention_summary |->
              generateInterventionSummary(d, predicted_score, risk_level),
          shap_explanation |-> ShapV1(d) ]

-----------------------------------------------------------------------------
(* unnamed/part_000:318-811: PredictionForm, model v2.0-enhanced *)

\* the trend term of v2.0 with its two signs exchanged
TrendV2Reversed(d) ==
    IF d.g2 > d.g1 THEN -15000 ELSE IF d.g2 < d.g1 THEN 10000 ELSE 0

\* the trend term: part_000:387-391
TrendV2(d) == IF d.g2 > d.g1 THEN 15000 ELSE IF d.g2 < d.g1 THEN -10000 ELSE 0

\* part_000:375-395: the sum of the terms, before clamping
RawScoreV2(d) ==
    LET academicWeight == d.g1 * 1250 + d.g2 * 1750
        studyEffort == (MathLog(d.studytime + 1) * 25) \div 10
        attendanceImpact == Max(0, (20 - d.absences) * 4000)
        emotionalFactor == d.emotional_sentiment * 800
        effortBonus == MathPow15(d.effort_score) * 6
        participationBonus == d.participation_index * 700
        emotionEffortSynergy == d.emotional_sentiment * d.effort_score * 3
    IN  academicWeight + studyEffort + attendanceImpact + emotionalFactor
        + effortBonus + participationBonus + TrendV2(d) + emotionEffortSynergy

\* part_000:398
ClampV2(x) == Max(20000, Min(200000, x))

\* part_000:401-410; 8 * (sum / 4) is 2 * sum
ConfidenceV2(d) ==
    LET sum == Abs(d.g2 - d.g1) * 5000
               + d.absences * 10000
               + Abs(d.emotional_sentiment - 50) * 200
               + (Abs(d.effort_score - 75) * 10000) \div 75
        base_confidence == Max(650000, 950000 - sum * 2)
    IN  Min(980000, base_confidence + d.participation_index * 2000)

\* part_000:413-417
RiskV2(predicted_score, d) ==
    IF predicted_score < 80000 THEN "high"
    ELSE IF predicted_score < 120000 THEN "medium"
    ELSE IF d.absences > 8 THEN "medium"
    ELSE IF d.emotional_sentiment < 30 THEN "medium"
    ELSE "low"

\* the strengths list of part_000:457-492, in the order the code pushes
StrengthsV2(d) ==
    LET s1 == PushIf(<<>>, ~(d.studytime < 3) /\ d.studytime > 7,
                     "Strong study time commitment")
        s2 == PushIf(s1, ~(d.absences > 5) /\ d.absences < 2,
                     "Excellent attendance record")
        s3 == PushIf(s2, ~(d.effort_score < 60) /\ d.effort_score > 80,
                     "High effort and motivation levels")
        s4 == PushIf(s3, ~(d.participation_index < 60) /\ d.participation_index > 80,
                     "Active class participant")
        s5 == PushIf(s4, ~(d.emotional_sentiment < 40) /\ d.emotional_sentiment > 70,
                     "Positive emotional state")
    IN  PushIf(s5, ~(d.g2 < d.g1) /\ d.g2 > d.g1, "Showing academic improvement")

\* the interventions list with the grade trend tested first
InterventionsV2TrendFirst(d) ==
    LET i0 == PushIf(<<>>, d.g2 < d.g1,
                     "Focus on recent learning gaps - review G2 topics comprehensively")
        i1 == PushIf(i0, d.studytime < 3, "Implement structured study schedule with 30-45 min focused sessions")
        i2 == PushIf(i1, d.absences > 5, "Address attendance patterns - consider flexible scheduling or support")
        i3 == PushIf(i2, d.effort_score < 60, "Motivational coaching and goal-setting sessions needed")
        i4 == PushIf(i3, d.participation_index < 60, "Encourage active participation through smaller group activities")
    IN  PushIf(i4, d.emotional_sentiment < 40,
               "Emotional support and stress management resources recommended")

\* the interventions list of part_000:457-492
InterventionsV2(d) ==
    LET i1 == PushIf(<<>>, d.studytime < 3, "Implement structured study schedule with 30-45 min focused sessions")
        i2 == PushIf(i1, d.absences > 5, "Address attendance patterns - consider flexible scheduling or support")
        i3 == PushIf(i2, d.effort_score < 60, "Motivational coaching and goal-setting sessions needed")
        i4 == PushIf(i3, d.participation_index < 60, "Encourage active participation through smaller group activities")
        i5 == PushIf(i4, d.emotional_sentiment < 40,
                     "Emotional support and stress management resources recommended")
    IN  PushIf(i5, d.g2 < d.g1,
               "Focus on recent learning gaps - review G2 topics comprehensively")

\* part_000:494-510: the summary built from the two lists
SummaryV2(strengths, interventions, risk) ==
    (IF Len(strengths) > 0
     THEN <<"Strengths: ">> \o Join(strengths, ", ") \o <<". ">>
     ELSE <<>>)
    \o (IF Len(interventions) = 0
        THEN <<"Student is performing well across all metrics. Continue current approach with minor optimizations.">>
        ELSE <<"Recommended interventions: ">> \o Join(interventions, "; ")
             \o <<". ">>
             \o (IF risk = "high"
                 THEN <<"HIGH PRIORITY - Immediate intervention required.">>
                 ELSE IF risk = "medium"
                 THEN <<"Monitor progress closely and implement changes within 2 weeks.">>
                 ELSE <<>>))

\* the shap_explanation of v2.0 without the synergy term
ShapV2NoSynergy(d, predicted_score) ==
    [ features |->
        [ previous_performance |-> d.g1 * 1250 + d.g2 * 1750,
          study_effort |-> (MathLog(d.studytime + 1) * 25) \div 10,
          attendance |-> Max(0, (20 - d.absences) * 4000),
          emotional_state |-> d.emotional_sentiment * 800,
          effort_level |-> MathPow15(d.effort_score) * 6,
          participation |-> d.participation_index * 700,
          improvement_trend |->
              IF d.g2 > d.g1 THEN 15000 ELSE IF d.g2 < d.g1 THEN -10000 ELSE 0 ],
      total_contribution |-> predicted_score ]

\* the shap_explanation of part_000:422-434; predicted_score is the clamped,
\* unrounded score
ShapV2(d, predicted_score) ==
    [ features |->
        [ previous_performance |-> d.g1 * 1250 + d.g2 * 1750,
          study_effort |-> (MathLog(d.studytime + 1) * 25) \div 10,
          attendance |-> Max(0, (20 - d.absences) * 4000),
          emotional_state |-> d.emotional_sentiment * 800,
          effort_level |-> MathPow15(d.effort_score) * 6,
          participation |-> d.participation_index * 700,
          improvement_trend |->
              IF d.g2 > d.g1 THEN 15000 ELSE IF d.g2 < d.g1 THEN -10000 ELSE 0,
          synergy_bonus |-> d.emotional_sentiment * d.effort_score * 3 ],
      total_contribution |-> predicted_score ]

\* generateAdvancedIntervention(data, score, risk), part_000:452-511
generateAdvancedIntervention_v2(d, score, risk) ==
    SummaryV2(StrengthsV2(d), InterventionsV2(d), risk)

\* enhancedMLPrediction(data), part_000:371-450
enhancedMLPrediction_v2(d) ==
    LET predicted_score == ClampV2(RawScoreV2(d))
        risk_level == RiskV2(predicted_score, d)
    IN  [ predicted_score |-> Round2(predicted_score),
          confidence_level |-> Round2(ConfidenceV2(d)),
          risk_level |-> risk_level,
          intervention_summary |->
              generateAdvancedIntervention_v2(d, predicted_score, risk_level),
          shap_explanation |-> ShapV2(d, predicted_score) ]

-----------------------------------------------------------------------------
(* A student record: the optional fields of interface Student.  A field the *)
(* record does not have is Undefined (UndefinedStr for G1, a string).       *)

\* NaN (falsy, like undefined)
NaN == Undefined

\* parseFloat(s), in half points, on the strings a record's G1 may hold
parseFloat(s) ==
    CASE s = "0" -> 0
      [] s = "8" -> 16
      [] s = "12" -> 24
      [] s = "15" -> 30
      [] OTHER -> NaN

\* x is truthy (a number that is neither undefined, NaN nor 0)
Truthy(x) == x # Undefined /\ x # 0

\* parseFloat(studentData.G1 || '0') || 0
G1Score(sd) == OrNum(parseFloat(OrStr(sd.G1, "0")), 0)

\* 5 - Math.abs((studentData.goout || 0) - 3), floored at 0
SocialBalance(sd) == Max(0, 5 - Abs(OrNum(sd.goout, 0) - 3))

\* (studentData.Dalc || 0) + (studentData.Walc || 0)
AlcoholSum(sd) == OrNum(sd.Dalc, 0) + OrNum(sd.Walc, 0)

\* studentData.age && studentData.age >= 15 && studentData.age <= 18
OptimalAge(sd) == Truthy(sd.age) /\ sd.age >= 15 /\ sd.age <= 18

\* the four |feature| terms of variance_factors, v3.0 to v6.0
VarianceTerms(d) ==
    Abs(d.g2 - d.g1) * 5000
    + d.absences * 2000
    + Abs(d.emotional_sentiment - 50) * 200
    + (Abs(d.effort_score - 75) * 10000) \div 75

-----------------------------------------------------------------------------
(* unnamed/part_001: PredictionForm, model v3.0-real-data-enhanced *)

\* part_001:94-102
AcademicBaseV3(sd) ==
    IF sd = None THEN 0
    ELSE G1Score(sd) * 1000 + OrNum(sd.G2, 0) * 3000 + OrNum(sd.G3, 0) * 1500

\* part_001:113-131
DemographicBonusV3(sd) ==
    IF sd = None THEN 0
    ELSE (IF OptimalAge(sd) THEN 10000 ELSE 0)
         + (OrNum(sd.Fedu, 0) + OrNum(sd.Medu, 0)) * 1500
         + OrNum(sd.famrel, 0) * 2000
         + OrNum(sd.health, 0) * 1000
         + SocialBalance(sd) * 2000

\* part_001:138-142
TrendV3(d) == IF d.g2 > d.g1 THEN 15000 ELSE IF d.g2 < d.g1 THEN -10000 ELSE 0

\* part_001:104-146: the sum of the terms, before clamping
RawScoreV3(d, sd) ==
    LET academicWeight == AcademicBaseV3(sd) + d.g1 * 750 + d.g2 * 1000
        studyEffort == (MathLog(d.studytime + 1) * 25) \div 10
        attendanceImpact == Max(0, (20 - d.absences) * 4000)
        emotionalFactor == d.emotional_sentiment * 800
        effortBonus == MathPow15(d.effort_score) * 6
        participationBonus == d.participation_index * 700
        emotionEffortSynergy == d.emotional_sentiment * d.effort_score * 3
    IN  academicWeight + studyEffort + attendanceImpact + emotionalFactor
        + effortBonus + participationBonus + DemographicBonusV3(sd)
        + TrendV3(d) + emotionEffortSynergy

\* part_001:149
ClampV3(x) == Max(20000, Min(200000, x))

\* part_001:152-162
ConfidenceV3(d, sd) ==
    LET sum == VarianceTerms(d) + (IF sd # None THEN 0 ELSE 20000)
        base_confidence == Max(700000, 980000 - (sum * 8) \div 5)
    IN  Min(990000, base_confidence + d.participation_index * 1500)

\* part_001:165-170
RiskV3(predicted_score, d, sd) ==
    IF predicted_score < 80000 THEN "high"
    ELSE IF predicted_score < 120000 THEN "medium"
    ELSE IF d.absences > 8 THEN "medium"
    ELSE IF d.emotional_sentiment < 30 THEN "medium"
    ELSE IF sd # None /\ Truthy(sd.G2) /\ sd.G2 < 10 THEN "medium"
    ELSE "low"

\* the strengths pushed from the record: part_001:205-221
RecordStrengthsV3(sd) ==
    IF sd = None THEN <<>>
    ELSE LET s1 == PushIf(<<>>, Truthy(sd.G3) /\ sd.G3 > 15,
                          "Strong historical final performance")
         IN  PushIf(s1, Truthy(sd.famrel) /\ sd.famrel >= 4,
                    "Good family support system")

\* the interventions pushed from the record: part_001:205-221
RecordInterventionsV3(sd) ==
    IF sd = None THEN <<>>
    ELSE LET i1 == PushIf(<<>>, Truthy(sd.health) /\ sd.health < 3,
                          "Address health concerns that may impact learning")
         IN  PushIf(i1, Truthy(sd.Fedu) /\ Truthy(sd.Medu) /\ sd.Fedu + sd.Medu < 4,
                    "Provide additional academic support to compensate for limited family educational background")

\* generateAdvancedIntervention(data, score, risk, studentData), part_001:200-278
generateAdvancedIntervention_v3(d, score, risk, sd) ==
    SummaryV2(RecordStrengthsV3(sd) \o StrengthsV2(d),
              RecordInterventionsV3(sd) \o InterventionsV2(d), risk)

\* the shap_explanation of part_001:175-189
ShapV3(d, sd, predicted_score) ==
    [ features |->
        [ academic_history |-> AcademicBaseV3(sd),
          recent_performance |-> d.g1 * 750 + d.g2 * 1000,
          study_effort |-> (MathLog(d.studytime + 1) * 25) \div 10,
          attendance |-> Max(0, (20 - d.absences) * 4000),
          emotional_state |-> d.emotional_sentiment * 800,
          effort_level |-> MathPow15(d.effort_score) * 6,
          participation |-> d.participation_index * 700,
          demographic_factors |-> DemographicBonusV3(sd),
          improvement_trend |->
              IF d.g2 > d.g1 THEN 15000 ELSE IF d.g2 < d.g1 THEN -10000 ELSE 0,
          synergy_bonus |-> d.emotional_sentiment * d.effort_score * 3 ],
      total_contribution |-> predicted_score ]

\* enhancedMLPrediction(data, studentData), part_001:90-198
enhancedMLPrediction_v3(d, sd) ==
    LET predicted_score == ClampV3(RawScoreV3(d, sd))
        risk_level == RiskV3(predicted_score, d, sd)
    IN  [ predicted_score |-> Round2(predicted_score),
          confidence_level |-> Round2(ConfidenceV3(d, sd)),
          risk_level |-> risk_level,
          intervention_summary |->
              generateAdvancedIntervention_v3(d, predicted_score, risk_level, sd),
          shap_explanation |-> ShapV3(d, sd, predicted_score) ]

-----------------------------------------------------------------------------
(* unnamed/part_000:813-1448: PredictionForm, model v5.0-real-database-enhanced *)

\* part_000:922-927
AcademicBaseV5(sd) ==
    IF sd = None THEN 0
    ELSE G1Score(sd) * 1000 + OrNum(sd.G2, 0) * 3000
         + OrNum(OrNum(sd.G3, 0), OrNum(sd.G2, 0)) * 1500

\* part_000:931-933
DemographicFactorsV5(sd) ==
    IF sd # None /\ OptimalAge(sd) THEN 10000 ELSE 0

\* part_000:936-941
FamilyFactorsV5(sd) ==
    IF sd = None THEN 0
    ELSE (OrNum(sd.Fedu, 0) + OrNum(sd.Medu, 0)) * 2000
         + OrNum(sd.famrel, 0) * 3000
         + OrNum(sd.health, 0) * 2000

\* part_000:944-949
SocialFactorsV5(sd) ==
    IF sd = None THEN 0
    ELSE SocialBalance(sd) * 3000 - AlcoholSum(sd) * 1000

\* part_000:969-973
TrendV5(d) == IF d.g2 > d.g1 THEN 15000 ELSE IF d.g2 < d.g1 THEN -10000 ELSE 0

\* part_000:956-977: the sum of the terms, before clamping
RawScoreV5(d, sd) ==
    LET academicWeight == AcademicBaseV5(sd) + d.g1 * 750 + d.g2 * 1000
        studyEffort == (MathLog(d.studytime + 1) * 25) \div 10
        attendanceImpact == Max(0, (20 - d.absences) * 4000)
        emotionalFactor == d.emotional_sentiment * 800
        effortBonus == MathPow15(d.effort_score) * 6
        participationBonus == d.participation_index * 700
        emotionEffortSynergy == d.emotional_sentiment * d.effort_score * 3
    IN  academicWeight + studyEffort + attendanceImpact + emotionalFactor
        + effortBonus + participationBonus
        + DemographicFactorsV5(sd) + FamilyFactorsV5(sd) + SocialFactorsV5(sd)
        + TrendV5(d) + emotionEffortSynergy

\* part_000:980
ClampV5(x) == Max(20000, Min(200000, x))

\* part_000:985-995
ConfidenceV5(d, sd) ==
    LET sum == VarianceTerms(d) + (IF sd # None THEN 0 ELSE 30000)
        base_confidence == Max(750000, 980000 - (sum * 8) \div 5)
    IN  Min(990000, base_confidence + d.participation_index * 1500)

\* part_000:998-1004
RiskV5(predicted_score, d, sd) ==
    IF predicted_score < 80000 THEN "high"
    ELSE IF predicted_score < 120000 THEN "medium"
    ELSE IF d.absences > 8 THEN "medium"
    ELSE IF d.emotional_sentiment < 30 THEN "medium"
    ELSE IF sd # None /\ Truthy(sd.G2) /\ sd.G2 < 10 THEN "medium"
    ELSE IF sd # None /\ AlcoholSum(sd) > 6 THEN "medium"
    ELSE "low"

\* generateAdvancedIntervention(data, score, risk, studentData), part_000:1036-1114
\* (the lists and the summary are those of v3.0, word for word)
generateAdvancedIntervention_v5(d, score, risk, sd) ==
    SummaryV2(RecordStrengthsV3(sd) \o StrengthsV2(d),
              RecordInterventionsV3(sd) \o InterventionsV2(d), risk)

\* the shap_explanation of part_000:1009-1025
ShapV5(d, sd, predicted_score) ==
    [ features |->
        [ real_academic_history |-> AcademicBaseV5(sd),
          real_family_factors |-> FamilyFactorsV5(sd),
          real_social_factors |-> SocialFactorsV5(sd),
          real_demographic_bonus |-> DemographicFactorsV5(sd),
          current_performance |-> d.g1 * 750 + d.g2 * 1000,
          study_effort |-> (MathLog(d.studytime + 1) * 25) \div 10,
          attendance |-> Max(0, (20 - d.absences) * 4000),
          emotional_state |-> d.emotional_sentiment * 800,
          effort_level |-> MathPow15(d.effort_score) * 6,
          participation |-> d.participation_index * 700,
          improvement_trend |->
              IF d.g2 > d.g1 THEN 15000 ELSE IF d.g2 < d.g1 THEN -10000 ELSE 0,
          synergy_bonus |-> d.emotional_sentiment * d.effort_score * 3 ],
      total_contribution |-> predicted_score ]

\* enhancedMLPrediction(data, studentData), part_000:909-1034
enhancedMLPrediction_v5(d, sd) ==
    LET predicted_score == ClampV5(RawScoreV5(d, sd))
        risk_level == RiskV5(predicted_score, d, sd)
    IN  [ predicted_score |-> Round2(predicted_score),
          confidence_level |-> Round2(ConfidenceV5(d, sd)),
          risk_level |-> risk_level,
          intervention_summary |->
              generateAdvancedIntervention_v5(d, predicted_score, risk_level, sd),
          shap_explanation |-> ShapV5(d, sd, predicted_score) ]

-----------------------------------------------------------------------------
(* src/components/StudentAnalyticsForm.tsx:466-1206: model v6.0-supabase-enhanced *)

\* StudentAnalyticsForm.tsx:590-595
AcademicBaseV6(sd, real) ==
    IF sd # None /\ real
    THEN G1Score(sd) * 1250 + OrNum(sd.G2, 0) * 3500
         + OrNum(OrNum(sd.G3, 0), OrNum(sd.G2, 0)) * 2000
    ELSE 0

\* StudentAnalyticsForm.tsx:599-601
DemographicFactorsV6(sd, real) ==
    IF sd # None /\ real /\ OptimalAge(sd) THEN 15000 ELSE 0

\* StudentAnalyticsForm.tsx:604-609
FamilyFactorsV6(sd, real) ==
    IF sd # None /\ real
    THEN (OrNum(sd.Fedu, 0) + OrNum(sd.Medu, 0)) * 3000
         + OrNum(sd.famrel, 0) * 4000
         + OrNum(sd.health, 0) * 3000
    ELSE 0

\* StudentAnalyticsForm.tsx:612-617
SocialFactorsV6(sd, real) ==
    IF sd # None /\ real
    THEN SocialBalance(sd) * 4000 - AlcoholSum(sd) * 1500
    ELSE 0

\* StudentAnalyticsForm.tsx:620
RealDataBonusV6(sd, real) == IF sd # None /\ real THEN 20000 ELSE 0

\* StudentAnalyticsForm.tsx:644-648
TrendV6(d) == IF d.g2 > d.g1 THEN 20000 ELSE IF d.g2 < d.g1 THEN -15000 ELSE 0

\* StudentAnalyticsForm.tsx:628-652: the sum of the terms, before clamping
RawScoreV6(d, sd, real) ==
    LET academicWeight == AcademicBaseV6(sd, real) + d.g1 * 750 + d.g2 * 1000
        studyEffort == MathLog(d.studytime + 1) * 3
        attendanceImpact == d.attendance_rate * 400
        emotionalFactor == d.emotional_sentiment * 600
        effortBonus == MathPow15(d.effort_score) * 5
        participationBonus == d.participation_index * 600
        motivationImpact == d.motivation_level * 400
        stressImpact == -(d.stress_level * 300)
        emotionEffortSynergy == d.emotional_sentiment * d.effort_score * 4
    IN  academicWeight + studyEffort + attendanceImpact + emotionalFactor
        + effortBonus + participationBonus
        + DemographicFactorsV6(sd, real) + FamilyFactorsV6(sd, real)
        + SocialFactorsV6(sd, real) + RealDataBonusV6(sd, real)
        + motivationImpact + stressImpact + TrendV6(d) + emotionEffortSynergy

\* the clamp of v6.0 without its Math.min(20, .)
ClampV6NoCeiling(x) == Max(20000, x)

\* StudentAnalyticsForm.tsx:655
ClampV6(x) == Max(20000, Min(200000, x))

\* the confidence of v6.0 without its Math.min(99, .)
ConfidenceV6Uncapped(d, sd, real) ==
    LET sum == VarianceTerms(d) + (IF real /\ sd # None THEN 0 ELSE 40000)
        base_confidence == IF real /\ sd # None THEN 950000 ELSE 800000
    IN  base_confidence - (sum * 6) \div 5 + d.participation_index * 1200

\* StudentAnalyticsForm.tsx:660-670
ConfidenceV6(d, sd, real) ==
    LET sum == VarianceTerms(d) + (IF real /\ sd # None THEN 0 ELSE 40000)
        base_confidence == IF real /\ sd # None THEN 950000 ELSE 800000
    IN  Min(990000, base_confidence - (sum * 6) \div 5 + d.participation_index * 1200)

\* StudentAnalyticsForm.tsx:673-679
RiskV6(predicted_score, d, sd) ==
    IF predicted_score < 80000 THEN "high"
    ELSE IF predicted_score < 120000 THEN "medium"
    ELSE IF d.absences > 8 THEN "medium"
    ELSE IF d.emotional_sentiment < 30 THEN "medium"
    ELSE IF sd # None /\ Truthy(sd.G2) /\ sd.G2 < 10 THEN "medium"
    ELSE IF sd # None /\ AlcoholSum(sd) > 6 THEN "medium"
    ELSE "low"

\* the strengths list of StudentAnalyticsForm.tsx:719-783
StrengthsV6(d, sd, isRealData) ==
    LET r1 == PushIf(<<>>, sd # None /\ isRealData /\ Truthy(sd.G3) /\ sd.G3 > 15,
                     "Strong historical final performance in database")
        r2 == PushIf(r1, sd # None /\ isRealData /\ Truthy(sd.famrel) /\ sd.famrel >= 4,
                     "Good family support system (verified in database)")
        s1 == PushIf(r2, ~(d.studytime < 3) /\ d.studytime > 7,
                     "Excellent study time commitment")
        s2 == PushIf(s1, ~(d.attendance_rate < 80) /\ d.attendance_rate > 95,
                     "Outstanding attendance record")
        s3 == PushIf(s2, ~(d.effort_score < 60) /\ d.effort_score > 80,
                     "High effort and motivation levels")
        s4 == PushIf(s3, ~(d.participation_index < 60) /\ d.participation_index > 80,
                     "Active and engaged class participant")
        s5 == PushIf(s4, ~(d.emotional_sentiment < 40) /\ d.emotional_sentiment > 70,
                     "Positive emotional state and well-being")
    IN  PushIf(s5, ~(d.g2 < d.g1) /\ d.g2 > d.g1, "Positive academic improvement trend")

\* the interventions list of StudentAnalyticsForm.tsx:719-783
InterventionsV6(d, sd, isRealData) ==
    LET r0 == PushIf(<<>>, sd # None /\ isRealData,
                     "Analysis based on REAL Supabase database record")
        r1 == PushIf(r0, sd # None /\ isRealData /\ Truthy(sd.health) /\ sd.health < 3,
                     "Address health concerns documented in student record")
        r2 == PushIf(r1, sd # None /\ isRealData /\ Truthy(sd.Fedu) /\ Truthy(sd.Medu)
                         /\ sd.Fedu + sd.Medu < 4,
                     "Provide additional academic support to compensate for limited family educational background")
        i1 == PushIf(r2, d.studytime < 3,
                     "Implement structured study schedule with 45-60 min focused sessions")
        i2 == PushIf(i1, d.attendance_rate < 80,
                     "Critical: Address attendance issues immediately - consider support services")
        i3 == PushIf(i2, d.effort_score < 60,
                     "Urgent: Motivational coaching and personalized goal-setting sessions")
        i4 == PushIf(i3, d.participation_index < 60,
                     "Encourage active participation through smaller group activities and confidence building")
        i5 == PushIf(i4, d.emotional_sentiment < 40,
                     "Priority: Emotional support and comprehensive stress management resources")
        i6 == PushIf(i5, d.stress_level > 70,
                     "High stress levels detected - implement relaxation techniques and workload management")
        i7 == PushIf(i6, d.motivation_level < 50,
                     "Focus on intrinsic motivation through personalized learning goals")
    IN  PushIf(i7, d.g2 < d.g1,
               "Urgent: Address recent academic decline - comprehensive review of G2 topics")

\* StudentAnalyticsForm.tsx:785-805: the summary built from the two lists
SummaryV6(strengths, interventions, risk, sd, isRealData) ==
    (IF isRealData /\ sd # None
     THEN <<"ANALYSIS BASED ON REAL SUPABASE DATABASE RECORD. ">>
     ELSE <<>>)
    \o (IF Len(strengths) > 0
        THEN <<"Strengths: ">> \o Join(strengths, ", ") \o <<". ">>
        ELSE <<>>)
    \o (IF Len(interventions) = 0
        THEN <<"Student is performing excellently across all metrics. Continue current approach with minor optimizations.">>
        ELSE <<"Recommended interventions: ">> \o Join(interventions, "; ")
             \o <<". ">>
             \o (IF risk = "high"
                 THEN <<"HIGH PRIORITY - Immediate comprehensive intervention required within 48 hours.">>
                 ELSE IF risk = "medium"
                 THEN <<"Monitor progress closely and implement targeted changes within 1 week.">>
                 ELSE <<>>))

\* generateAdvancedIntervention(data, score, risk, studentData, isRealData),
\* StudentAnalyticsForm.tsx:714-806
generateAdvancedIntervention_v6(d, score, risk, sd, isRealData) ==
    SummaryV6(StrengthsV6(d, sd, isRealData), InterventionsV6(d, sd, isRealData),
              risk, sd, isRealData)

\* enhancedMLPrediction(data, studentData), StudentAnalyticsForm.tsx:576-712;
\* real is the component's useRealData
\* the shap_explanation of StudentAnalyticsForm.tsx:684-703
ShapV6(d, sd, real, predicted_score) ==
    [ features |->
        [ real_academic_history |-> AcademicBaseV6(sd, real),
          real_family_factors |-> FamilyFactorsV6(sd, real),
          real_social_factors |-> SocialFactorsV6(sd, real),
          real_demographic_bonus |-> DemographicFactorsV6(sd, real),
          real_data_confidence_bonus |-> RealDataBonusV6(sd, real),
          current_performance |-> d.g1 * 750 + d.g2 * 1000,
          study_effort |-> MathLog(d.studytime + 1) * 3,
          attendance |-> d.attendance_rate * 400,
          emotional_state |-> d.emotional_sentiment * 600,
          effort_level |-> MathPow15(d.effort_score) * 5,
          participation |-> d.participation_index * 600,
          motivation |-> d.motivation_level * 400,
          stress_impact |-> -(d.stress_level * 300),
          improvement_trend |->
              IF d.g2 > d.g1 THEN 20000 ELSE IF d.g2 < d.g1 THEN -15000 ELSE 0,
          synergy_bonus |-> d.emotional_sentiment * d.effort_score * 4 ],
      total_contribution |-> predicted_score ]

enhancedMLPrediction_v6(d, sd, real) ==
    LET predicted_score == ClampV6(RawScoreV6(d, sd, real))
        risk_level == RiskV6(predicted_score, d, sd)
    IN  [ predicted_score |-> Round2(predicted_score),
          confidence_level |-> Round2(ConfidenceV6(d, sd, real)),
          risk_level |-> risk_level,
          intervention_summary |->
              generateAdvancedIntervention_v6(d, predicted_score, risk_level, sd, real),
          shap_explanation |-> ShapV6(d, sd, real, predicted_score) ]

-----------------------------------------------------------------------------
(* src/components/StudentAnalyticsForm.tsx, v4.0: flexibleMLPrediction *)
(* An analytic's value is a whole number (slider step 1).               *)

\* the names an analytic may be given
AnalyticNames ==
    { "Study Hours/Week", "Attendance Rate", "Assignment Score",
      "Participation Level", "Motivation Score", "Absences", "Sleep Quality", "" }

\* the words the code looks for that name.toLowerCase() contains
WordsIn(name) ==
    CASE name = "Study Hours/Week" -> {"study", "hour"}
      [] name = "Attendance Rate" -> {"attendance"}
      [] name = "Assignment Score" -> {"score"}
      [] name = "Participation Level" -> {"participation"}
      [] name = "Motivation Score" -> {"motivation", "score"}
      [] name = "Absences" -> {"absence"}
      [] OTHER -> {}

\* name.toLowerCase().includes(word)
Includes(name, word) == word \in WordsIn(name)

\* StudentAnalyticsForm.tsx:78-111: the branch an analytic's name selects
AnalyticKind(name) ==
    IF Includes(name, "grade") \/ Includes(name, "score") \/ Includes(name, "mark")
      THEN "academic"
    ELSE IF Includes(name, "attendance") \/ Includes(name, "present")
      THEN "attendance"
    ELSE IF Includes(name, "hour") \/ Includes(name, "time") \/ Includes(name, "study")
      THEN "study"
    ELSE IF \/ Includes(name, "motivation") \/ Includes(name, "engagement")
            \/ Includes(name, "participation")
      THEN "behavioral"
    ELSE IF Includes(name, "absence") \/ Includes(name, "miss")
      THEN "absence"
    ELSE "generic"

\* StudentAnalyticsForm.tsx:78-111: normalizedValue, in 1/10000
NormalizedValue(analytic) ==
    LET kind == AnalyticKind(analytic.name)
        value == analytic.value
    IN  CASE kind = "academic" -> Max(0, Min(100, value)) * 2000
          [] kind = "attendance" -> Max(0, Min(100, value)) * 2000
          [] kind = "study" -> Min(15, Max(0, value)) * 12000
          [] kind = "behavioral" -> Max(1, Min(10, value)) * 20000
          [] kind = "absence" -> Max(0, 20 - value) * 10000
          [] OTHER -> IF value <= 10 THEN value * 20000
                      ELSE IF value <= 100 THEN value * 2000
                      ELSE Min(200000, value * 1000)

\* StudentAnalyticsForm.tsx:78-111: weight, in tenths
AnalyticWeight(analytic) ==
    LET kind == AnalyticKind(analytic.name)
    IN  CASE kind = "academic" -> 25
          [] kind = "attendance" -> 20
          [] kind = "study" -> 18
          [] kind = "behavioral" -> 15
          [] kind = "absence" -> 15
          [] OTHER -> 10

\* the sum of a sequence of numbers (reduce / the accumulation of forEach)
RECURSIVE SumSeq(_)
SumSeq(xs) == IF Len(xs) = 0 THEN 0 ELSE Head(xs) + SumSeq(Tail(xs))

\* StudentAnalyticsForm.tsx:71: the analytics the score counts
Counted(as) == SelectSeq(as, LAMBDA a : a.name # "")

\* StudentAnalyticsForm.tsx:120: the weighted average, 10 when nothing counts
BaseScoreV4(as) ==
    LET counted == Counted(as)
        totalScore == SumSeq([i \in 1..Len(counted) |->
                         NormalizedValue(counted[i]) * AnalyticWeight(counted[i])])
        weightSum == SumSeq([i \in 1..Len(counted) |-> AnalyticWeight(counted[i])])
    IN  IF weightSum > 0 THEN totalScore \div weightSum ELSE 100000

\* StudentAnalyticsForm.tsx:123-125: the mean absolute deviation of the values
ValueVariance(as) ==
    LET n == Len(as)
        mean == (SumSeq([i \in 1..n |-> as[i].value]) * 10000) \div n
    IN  IF n > 1
          THEN SumSeq([i \in 1..n |-> Abs(as[i].value * 10000 - mean)]) \div n
          ELSE 0

\* StudentAnalyticsForm.tsx:127-130: the sum of the terms, before clamping
RawScoreV4(as) ==
    LET consistencyBonus == Max(0, 20000 - ValueVariance(as) \div 20)
        diversityBonus == Min(20000, Len(as) * 3000)
    IN  BaseScoreV4(as) + consistencyBonus + diversityBonus

\* StudentAnalyticsForm.tsx:130
ClampV4(x) == Max(20000, Min(200000, x))

\* StudentAnalyticsForm.tsx:133-135
ConfidenceV4(as) ==
    LET described == SelectSeq(as, LAMBDA a : a.name # "" /\ a.description # "")
        dataQuality20 == (Len(described) * 200000) \div Max(1, Len(as))
        base_confidence == 750000 + dataQuality20 + Len(as) * 20000
    IN  Min(990000, Max(600000, base_confidence - ValueVariance(as) * 2))

\* StudentAnalyticsForm.tsx:138-141
RiskV4(predicted_score, as) ==
    IF predicted_score < 80000 THEN "high"
    ELSE IF predicted_score < 120000 THEN "medium"
    ELSE IF ValueVariance(as) > 300000 THEN "medium"
    ELSE "low"

\* StudentAnalyticsForm.tsx:159-193: what one analytic pushes on `interventions`
FlexIntervention(a) ==
    LET v == ToString(a.value)
    IN  IF Includes(a.name, "study") \/ Includes(a.name, "hour")
          THEN IF a.value < 3
                 THEN << <<"Increase study time - currently ", v, " hours/week">> >>
                 ELSE <<>>
        ELSE IF Includes(a.name, "attendance")
          THEN IF a.value < 80
                 THEN << <<"Improve attendance - currently ", v, "%">> >>
                 ELSE <<>>
        ELSE IF Includes(a.name, "score") \/ Includes(a.name, "grade")
          THEN IF a.value < 60
                 THEN << <<"Focus on improving ", a.name, " - currently ", v>> >>
                 ELSE <<>>
        ELSE IF Includes(a.name, "motivation") \/ Includes(a.name, "engagement")
          THEN IF a.value < 5
                 THEN << <<"Boost motivation and engagement in ", a.name>> >>
                 ELSE <<>>
        ELSE IF a.value < 50
               THEN << <<"Improve ", a.name, " - current level: ", v>> >>
               ELSE <<>>

\* StudentAnalyticsForm.tsx:159-193: what one analytic pushes on `strengths`
FlexStrength(a) ==
    LET v == ToString(a.value)
    IN  IF Includes(a.name, "study") \/ Includes(a.name, "hour")
          THEN IF a.value >= 3 /\ a.value > 8
                 THEN << <<"Strong study commitment (", v, " hours/week)">> >>
                 ELSE <<>>
        ELSE IF Includes(a.name, "attendance")
          THEN IF a.value >= 80 /\ a.value > 90
                 THEN << <<"Excellent attendance (", v, "%)">> >>
                 ELSE <<>>
        ELSE IF Includes(a.name, "score") \/ Includes(a.name, "grade")
          THEN IF a.value >= 60 /\ a.value > 80
                 THEN << <<"Strong performance in ", a.name, " (", v, ")">> >>
                 ELSE <<>>
        ELSE IF Includes(a.name, "motivation") \/ Includes(a.name, "engagement")
          THEN IF a.value >= 5 /\ a.value > 7
                 THEN << <<"High ", a.name, " (", v, "/10)">> >>
                 ELSE <<>>
        ELSE IF a.value >= 50 /\ a.value > 80
               THEN << <<"Good ", a.name, " performance (", v, ")">> >>
               ELSE <<>>

\* the lists the forEach of StudentAnalyticsForm.tsx:159-193 builds
RECURSIVE FlexInterventions(_)
FlexInterventions(as) ==
    IF Len(as) = 0 THEN <<>>
    ELSE FlexIntervention(Head(as)) \o FlexInterventions(Tail(as))

RECURSIVE FlexStrengths(_)
FlexStrengths(as) ==
    IF Len(as) = 0 THEN <<>>
    ELSE FlexStrength(Head(as)) \o FlexStrengths(Tail(as))

\* the pieces of `${items.join(sep)}` when an item is itself made of pieces
RECURSIVE JoinTexts(_, _)
JoinTexts(items, sep) ==
    IF Len(items) = 0 THEN <<>>
    ELSE IF Len(items) = 1 THEN items[1]
    ELSE items[1] \o <<sep>> \o JoinTexts(Tail(items), sep)

\* generateFlexibleIntervention(analytics, score, risk, studentName),
\* StudentAnalyticsForm.tsx:155-215
generateFlexibleIntervention(as, score, risk, name) ==
    LET interventions == FlexInterventions(as)
        strengths == FlexStrengths(as)
        s0 == <<"Analysis for ", OrStr(name, "Student"), ": ">>
        s1 == IF Len(strengths) > 0
                THEN s0 \o <<"Strengths: ">> \o JoinTexts(strengths, ", ") \o <<". ">>
                ELSE s0
    IN  IF Len(interventions) = 0
          THEN Append(s1, "Overall performance is good across all measured analytics. Continue current approach with minor optimizations.")
          ELSE LET s2 == s1 \o <<"Recommended interventions: ">>
                             \o JoinTexts(interventions, "; ") \o <<". ">>
               IN  PushIf(PushIf(s2, risk = "high",
                             "HIGH PRIORITY - Immediate intervention required."),
                          risk = "medium",
                          "Monitor progress and implement changes within 2 weeks.")

\* StudentAnalyticsForm.tsx:66, 113: analyticsBreakdown, the last value a name got
AnalyticsBreakdown(as) ==
    LET counted == Counted(as)
        last(nm) == CHOOSE i \in 1..Len(counted) :
                       /\ counted[i].name = nm
                       /\ \A j \in (i + 1)..Len(counted) : counted[j].name # nm
    IN  [nm \in {counted[i].name : i \in 1..Len(counted)} |->
            NormalizedValue(counted[last(nm)])]

\* flexibleMLPrediction(analytics, studentName), StudentAnalyticsForm.tsx:62-153
flexibleMLPrediction(as, name) ==
    LET predicted_score == ClampV4(RawScoreV4(as))
        confidence_level == ConfidenceV4(as)
        risk_level == RiskV4(predicted_score, as)
    IN  [ predicted_score |-> Round2(predicted_score),
          confidence_level |-> Round2(confidence_level),
          risk_level |-> risk_level,
          intervention_summary |->
              generateFlexibleIntervention(as, predicted_score, risk_level, name),
          analytics_breakdown |-> AnalyticsBreakdown(as) ]

-----------------------------------------------------------------------------
(* The scoring functions applied to an input *)

\* the `students` prop: rows of the students table
Students ==
    { [ id |-> 1, age |-> 17, studytime |-> 2, absences |-> 6, G1 |-> "8",
        G2 |-> 9, G3 |-> 10, Fedu |-> 2, Medu |-> 2, famrel |-> 4, goout |-> 3,
        Dalc |-> 1, Walc |-> 1, health |-> 3 ],
      [ id |-> 2, age |-> 16, studytime |-> 3, absences |-> 0, G1 |-> "15",
        G2 |-> 16, G3 |-> 17, Fedu |-> 4, Medu |-> 4, famrel |-> 5, goout |-> 3,
        Dalc |-> 1, Walc |-> 1, health |-> 5 ],
      [ id |-> 3, age |-> 19, studytime |-> 1, absences |-> 0, G1 |-> "0",
        G2 |-> 0, G3 |-> 0, Fedu |-> 1, Medu |-> 1, famrel |-> 2, goout |-> 5,
        Dalc |-> 1, Walc |-> 1, health |-> 2 ],
      [ id |-> 4, age |-> 15, studytime |-> 2, absences |-> 4, G1 |-> "12",
        G2 |-> 12, G3 |-> 12, Fedu |-> 3, Medu |-> 2, famrel |-> 3, goout |-> 4,
        Dalc |-> 4, Walc |-> 5, health |-> 4 ],
      [ id |-> 5, age |-> Undefined, studytime |-> Undefined, absences |-> Undefined,
        G1 |-> UndefinedStr, G2 |-> Undefined, G3 |-> Undefined, Fedu |-> Undefined,
        Medu |-> Undefined, famrel |-> Undefined, goout |-> Undefined,
        Dalc |-> Undefined, Walc |-> Undefined, health |-> Undefined ] }

\* the values the sliders of the forms give the fields the scoring reads
\* (each set holds the ends of the slider's range)
FormInputs ==
    { [DefaultFeatures EXCEPT !.studytime = st, !.g1 = g1, !.g2 = g2, !.absences = ab,
                              !.effort_score = ef, !.emotional_sentiment = es,
                              !.participation_index = pi] :
        st \in {1, 15}, g1 \in {0, 20, 40}, g2 \in {0, 24, 40}, ab \in {0, 9, 25},
        ef \in {10, 75, 100}, es \in {0, 60, 100}, pi \in {10, 82, 100} }

\* inputs that put the weighted score of v1.0 exactly on a cutoff
\* (1.2 + 0.8 + 0.6 + 4.0 + 5 * 0.28 = 8.00, ... + 5 * 0.68 = 10.00)
BoundaryInputs ==
    { [DefaultFeatures EXCEPT !.studytime = 1, !.g1 = 0, !.g2 = 0, !.absences = 0,
                              !.effort_score = 10, !.emotional_sentiment = es,
                              !.participation_index = 10] :
        es \in {27, 28, 67, 68} }

\* inputs whose score lies just under 8 and rounds to 8.00: for v2.0
\* 0.35 + 1.7327 + 2.24 + 1.1898 + 0.7 + 1.5 + 0.2856 = 7.9981, for the local
\* fallback 2.7465 + 5.2 + 0.05 = 7.9965
RoundingInputs ==
    { [DefaultFeatures EXCEPT !.studytime = 1, !.g1 = 0, !.g2 = 2, !.absences = 20,
                              !.effort_score = 34, !.emotional_sentiment = 28,
                              !.participation_index = 10],
      [DefaultFeatures EXCEPT !.studytime = 2, !.g1 = 0, !.g2 = 0, !.absences = 0,
                              !.effort_score = 65, !.emotional_sentiment = 0,
                              !.participation_index = 10, !.attendance_rate = 0,
                              !.motivation_level = 1, !.stress_level = 0] }

\* the further fields the v6.0 form and the edge function read
ExtendedInputs ==
    { [d EXCEPT !.attendance_rate = ar, !.motivation_level = ml, !.stress_level = sl] :
        d \in FormInputs, ar \in {50, 100}, ml \in {10, 100}, sl \in {0, 100} }

\* the FeatureSet of the specification's worked example: absences 20, studytime 1,
\* effort_score 2, emotional_sentiment 0.1, participation_index 1, g1 5, g2 4,
\* the other fields at the form's defaults
ExampleInput ==
    [DefaultFeatures EXCEPT !.absences = 20, !.studytime = 1, !.effort_score = 20,
                            !.emotional_sentiment = 10, !.participation_index = 10,
                            !.g1 = 10, !.g2 = 8]

\* what Math.random() may return, in 1/10000: a number in [0, 1)
RandomValues == {0, 5000, 9999}

\* the analytics of the v4.0 form: a name, a slider value 0..100, a description
CustomAnalytics ==
    [ name : AnalyticNames, value : {0, 9, 50, 100}, description : {"", "Weekly"} ]

\* the lists of analytics the v4.0 form may hold (it never holds none)
AnalyticsLists ==
    { <<a>> : a \in CustomAnalytics } \cup (CustomAnalytics \X CustomAnalytics)

ScoreInit ==
    /\ result = None
    /\ fn \in {"v1", "v2", "v3", "v4", "v5", "v6", "local"}
    /\ data \in IF fn \in {"v6", "local"}
                  THEN ExtendedInputs \cup RoundingInputs \cup {ExampleInput}
                ELSE IF fn = "v1" THEN FormInputs \cup BoundaryInputs \cup {ExampleInput}
                ELSE IF fn = "v4" THEN {None}
                ELSE FormInputs \cup RoundingInputs \cup {ExampleInput}
    /\ analytics \in IF fn = "v4" THEN AnalyticsLists ELSE {<<>>}
    /\ studentName \in IF fn = "v4" THEN {"", "Ana"} ELSE {""}
    /\ studentData \in IF fn \in {"v3", "v5", "v6"} THEN Students \cup {None}
                       ELSE {None}
    /\ useRealData = (studentData # None)
    /\ random \in IF fn = "v1" THEN RandomValues ELSE {0}

\* part_000:111
ApplyMock ==
    /\ fn = "v1" /\ result = None
    /\ result' = mockMLPrediction(data, random)
    /\ UNCHANGED inputVars

\* part_000:538
ApplyV2 ==
    /\ fn = "v2" /\ result = None
    /\ result' = enhancedMLPrediction_v2(data)
    /\ UNCHANGED inputVars

\* part_001:304
ApplyV3 ==
    /\ fn = "v3" /\ result = None
    /\ result' = enhancedMLPrediction_v3(data, studentData)
    /\ UNCHANGED inputVars

\* StudentAnalyticsForm.tsx:241
ApplyV4 ==
    /\ fn = "v4" /\ result = None
    /\ result' = flexibleMLPrediction(analytics, studentName)
    /\ UNCHANGED inputVars

\* part_000:1140
ApplyV5 ==
    /\ fn = "v5" /\ result = None
    /\ result' = enhancedMLPrediction_v5(data, studentData)
    /\ UNCHANGED inputVars

\* StudentAnalyticsForm.tsx:814
ApplyV6 ==
    /\ fn = "v6" /\ result = None
    /\ result' = enhancedMLPrediction_v6(data, studentData, useRealData)
    /\ UNCHANGED inputVars

\* index.ts:103
ApplyLocal ==
    /\ fn = "local" /\ result = None
    /\ result' = generateLocalPrediction(data)
    /\ UNCHANGED inputVars

ScoreNext ==
    \/ ApplyMock /\ UNCHANGED <<handlerVars, formVars, pageVars>>
    \/ ApplyV2 /\ UNCHANGED <<handlerVars, formVars, pageVars>>
    \/ ApplyV3 /\ UNCHANGED <<handlerVars, formVars, pageVars>>
    \/ ApplyV4 /\ UNCHANGED <<handlerVars, formVars, pageVars>>
    \/ ApplyV5 /\ UNCHANGED <<handlerVars, formVars, pageVars>>
    \/ ApplyV6 /\ UNCHANGED <<handlerVars, formVars, pageVars>>
    \/ ApplyLocal /\ UNCHANGED <<handlerVars, formVars, pageVars>>

-----------------------------------------------------------------------------
(* The forms: handleStudentSelect and handlePredict of each variant.          *)
(* alcohol_consumption is in half units (the mean of two whole numbers).      *)

\* the form of each variant
Forms == {"v1", "v2", "v3", "v4", "v5", "v6"}

\* student.G2 || dflt, in half points (the record holds whole points)
RecordG2(student, dflt) == IF Truthy(student.G2) THEN 2 * student.G2 ELSE dflt

\* handleStudentSelect of v3.0, part_001:65-83: the setFormData updater
handleStudentSelect_v3(prev, student) ==
    [prev EXCEPT !.studytime = OrNum(student.studytime, prev.studytime),
                 !.g1 = OrNum(parseFloat(OrStr(student.G1, "0")), prev.g1),
                 !.g2 = RecordG2(student, prev.g2),
                 !.absences = OrNum(student.absences, prev.absences)]

\* handleStudentSelect of v5.0, part_000:877-902: the setFormData updater
handleStudentSelect_v5(prev, student) ==
    [prev EXCEPT !.studytime = OrNum(student.studytime, 2),
                 !.g1 = OrNum(parseFloat(OrStr(student.G1, "0")), 20),
                 !.g2 = RecordG2(student, 24),
                 !.absences = OrNum(student.absences, 3)]

\* handleStudentSelect of v6.0, StudentAnalyticsForm.tsx:541-569 (the form that
\* invokes ml-prediction has the same updater, part_002:91-119)
handleStudentSelect_v6(prev, student) ==
    [prev EXCEPT !.age = OrNum(student.age, 16),
                 !.studytime = OrNum(student.studytime, 2),
                 !.g1 = OrNum(parseFloat(OrStr(student.G1, "0")), 20),
                 !.g2 = RecordG2(student, 24),
                 !.absences = OrNum(student.absences, 3),
                 !.family_support = OrNum(student.famrel, 3),
                 !.health_score = OrNum(student.health, 4),
                 !.social_activity = OrNum(student.goout, 3),
                 !.alcohol_consumption =
                     OrNum(OrNum(student.Dalc, 0) + OrNum(student.Walc, 0), 2),
                 !.attendance_rate = Max(0, 100 - OrNum(student.absences, 0) * 3)]

\* the updater of the form `fn`
handleStudentSelect(prev, student) ==
    CASE fn = "v3" -> handleStudentSelect_v3(prev, student)
      [] fn = "v5" -> handleStudentSelect_v5(prev, student)
      [] fn = "v6" -> handleStudentSelect_v6(prev, student)

\* the title of the toast a loaded record shows
LoadedToast ==
    CASE fn = "v3" -> "Student Data Loaded"
      [] fn = "v5" -> "Real Student Data Loaded"
      [] fn = "v6" -> "REAL Student Data Loaded"

\* the rows of the students table the forms list: nothing keeps the grades of a
\* row within 0..20
FormStudents ==
    Students \cup
    { [ id |-> 6, age |-> 17, studytime |-> 2, absences |-> 2, G1 |-> "12",
        G2 |-> 25, G3 |-> 14, Fedu |-> 2, Medu |-> 3, famrel |-> 4, goout |-> 2,
        Dalc |-> 1, Walc |-> 2, health |-> 4 ] }

\* the form data the sliders can be left at before a prediction is asked for
FormData ==
    { d \in FormInputs : d.studytime = 1 /\ d.effort_score = 75
                         /\ d.participation_index = 82 }
    \cup {DefaultFeatures, ExampleInput}

\* model_version of the rows a form stores
ModelVersion ==
    CASE fn = "v1" -> "v1.0"
      [] fn = "v2" -> "v2.0-enhanced"
      [] fn = "v3" -> "v3.0-real-data-enhanced"
      [] fn = "v4" -> "v4.0-flexible-analytics"
      [] fn = "v5" -> "v5.0-real-database-enhanced"
      [] fn = "v6" -> "v6.0-supabase-enhanced"

\* the scoring function the form's handlePredict calls on the form's state
PredictionResult ==
    CASE fn = "v1" -> mockMLPrediction(data, random)
      [] fn = "v2" -> enhancedMLPrediction_v2(data)
      [] fn = "v3" -> enhancedMLPrediction_v3(data, studentData)
      [] fn = "v4" -> flexibleMLPrediction(analytics, studentName)
      [] fn = "v5" -> enhancedMLPrediction_v5(data, studentData)
      [] fn = "v6" -> enhancedMLPrediction_v6(data, studentData, useRealData)

\* customAnalytics.find(a => name includes one of words)?.value || dflt
FindValue(as, words, dflt) ==
    LET hits == SelectSeq(as, LAMBDA a : WordsIn(a.name) \cap words # {})
    IN  IF Len(hits) = 0 THEN dflt ELSE OrNum(hits[1].value, dflt)

\* the student_id of the rows a form stores
FormStudentId ==
    CASE fn = "v4" -> studentName
      [] fn = "v6" -> OrStr(selectedStudentId, "custom_analytics")
      [] OTHER -> selectedStudentId

\* the row with the spreads of formData and predictionResult after the tag
FormRowTagFirst(d, r) ==
    d @@ r @@ [model_version |-> ModelVersion, student_id |-> FormStudentId]

\* the object handlePredict inserts into predictions, from formData d and
\* predictionResult r: a later property of the object literal replaces an
\* earlier one of the same name (v4.0 spreads nothing)
FormRowOf(d, r) ==
    IF fn = "v4"
      THEN [ student_id |-> studentName,
             studytime |-> FindValue(analytics, {"study"}, 5),
             g1 |-> FindValue(analytics, {"grade", "score"}, 12),
             g2 |-> FindValue(analytics, {"grade", "score"}, 12),
             absences |-> FindValue(analytics, {"absence"}, 3),
             effort_score |-> FindValue(analytics, {"effort", "motivation"}, 7),
             emotional_sentiment |-> 70,
             participation_index |-> FindValue(analytics, {"participation"}, 7),
             predicted_score |-> r.predicted_score,
             confidence_level |-> r.confidence_level,
             risk_level |-> r.risk_level,
             intervention_summary |-> r.intervention_summary,
             model_version |-> ModelVersion,
             shap_explanation |->
                 [ features |-> r.analytics_breakdown,
                   total_contribution |-> r.predicted_score,
                   analytics_used |-> analytics ] ]
      ELSE [model_version |-> ModelVersion] @@ r @@ d
           @@ [student_id |-> FormStudentId]

\* the row of the form's state
FormRow == FormRowOf(data, result)

\* AlertBranch with the else-if of the later variants in every form
AlertBranchEveryForm ==
    IF result.risk_level \in {"high", "medium"} THEN result.risk_level ELSE "none"

\* the branch of handlePredict's `if (risk_level === 'high') ... else if
\* (risk_level === 'medium') ...`: v1.0 and v4.0 have no else-if
AlertBranch ==
    IF result.risk_level = "high" THEN "high"
    ELSE IF fn \in {"v2", "v3", "v5", "v6"} /\ result.risk_level = "medium"
      THEN "medium"
    ELSE "none"

\* alert_type of the alert of a branch
AlertType(branch) ==
    CASE fn = "v4" -> "custom_analytics_risk"
      [] fn = "v5" -> IF branch = "high" THEN "real_data_performance_risk"
                      ELSE "real_data_performance_watch"
      [] fn = "v6" -> IF branch = "high" THEN "supabase_enhanced_performance_risk"
                      ELSE "supabase_enhanced_performance_watch"
      [] OTHER -> "performance_drop"

\* who the message of v6.0 is about
Subject ==
    IF useRealData THEN <<"Real student (ID: ", selectedStudentId, ")">>
    ELSE <<"Custom analytics">>

\* the message of the alert of a branch
AlertMessage(branch) ==
    LET score == <<" predicted to score ", result.predicted_score, "/20">>
        conf == <<" (", result.confidence_level, "% confidence). ">>
        head ==
          CASE fn = "v1" -> <<"Student">> \o score \o <<". ">>
            [] fn = "v2" ->
                 IF branch = "high" THEN <<"URGENT: Student">> \o score \o conf
                 ELSE <<"ATTENTION: Student">> \o score \o <<". Monitor closely. ">>
            [] fn = "v3" ->
                 IF branch = "high"
                   THEN <<"URGENT: Student ID ", selectedStudentId>> \o score \o conf
                   ELSE <<"ATTENTION: Student ID ", selectedStudentId>> \o score
                        \o <<". Monitor closely. ">>
            [] fn = "v4" -> <<"URGENT: Student ", studentName>> \o score
                            \o <<" based on custom analytics. ">>
            [] fn = "v5" ->
                 IF branch = "high"
                   THEN <<"URGENT: Student ID ", selectedStudentId, " (REAL DATA)">>
                        \o score \o conf
                   ELSE <<"ATTENTION: Student ID ", selectedStudentId, " (REAL DATA)">>
                        \o score \o <<". Monitor closely. ">>
            [] fn = "v6" ->
                 IF branch = "high" THEN <<"CRITICAL: ">> \o Subject \o score \o conf
                 ELSE <<"MONITOR: ">> \o Subject \o score \o <<". ">>
    IN  head \o result.intervention_summary

\* the object handlePredict inserts into alerts in a branch
FormAlert(branch) ==
    [ student_id |-> FormStudentId,
      alert_type |-> AlertType(branch),
      severity |-> branch,
      message |-> AlertMessage(branch) ]

\* the title of the toast of a prediction that was stored
SuccessToast ==
    CASE fn = "v1" -> "Success"
      [] fn = "v2" -> "Prediction Generated Successfully"
      [] fn = "v3" -> "Real Data Prediction Generated"
      [] fn = "v4" -> "Flexible Analytics Prediction Generated"
      [] fn = "v5" -> "REAL DATA Prediction Generated"
      [] fn = "v6" -> "SUPABASE Enhanced Prediction Generated"

\* the form the scoring function belongs to, before anything is done in it
FormIdle ==
    /\ selectedStudentId = ""
    /\ loading = FALSE
    /\ toast = ""
    /\ completed = FALSE

\* a form as it is mounted and filled in, before a record is selected and a
\* prediction asked for
FormInit ==
    /\ pc = "form"
    /\ fn \in Forms
    /\ data \in IF fn = "v4" THEN {None} ELSE FormData
    /\ analytics \in IF fn = "v4" THEN AnalyticsLists \cup {<<>>} ELSE {<<>>}
    /\ studentName \in IF fn = "v4" THEN {"", "Ana"} ELSE {""}
    /\ random \in IF fn = "v1" THEN RandomValues ELSE {0}
    /\ studentData = None
    /\ useRealData = FALSE
    /\ result = None
    /\ request = None
    /\ remote = None
    /\ sent = None
    /\ prediction = None
    /\ predictions = <<>>
    /\ alerts = <<>>
    /\ response = None

\* v1.0 and v2.0, part_000:170, 630: the Select sets selectedStudent
SelectStudent ==
    /\ pc = "form" /\ fn \in {"v1", "v2"}
    /\ \E student \in FormStudents : selectedStudentId' = ToString(student.id)
    /\ UNCHANGED <<pc, request, remote, sent, prediction, predictions, alerts, response,
                   fn, data, studentData, useRealData, random, analytics,
                   studentName, result, loading, toast, completed>>

\* handleStudentSelect(studentId) of v3.0, v5.0 and v6.0, for the id of a listed
\* record; selectedStudent (studentData) is the record with that id
HandleStudentSelect ==
    /\ pc = "form" /\ fn \in {"v3", "v5", "v6"}
    /\ \E student \in FormStudents :
         /\ selectedStudentId' = ToString(student.id)
         /\ studentData' = student
         /\ data' = handleStudentSelect(data, student)
    /\ useRealData' = IF fn = "v6" THEN TRUE ELSE useRealData
    /\ toast' = LoadedToast
    /\ UNCHANGED <<pc, request, remote, sent, prediction, predictions, alerts, response,
                   fn, random, analytics, studentName, result, loading, completed>>

\* the toast of the check that makes handlePredict return at once, "" when
\* every check passes
Rejection ==
    IF fn \in {"v1", "v2", "v3", "v5"} /\ selectedStudentId = "" THEN "Error"
    ELSE IF fn = "v4" /\ (studentName = "" \/ Len(analytics) = 0) THEN "Error"
    ELSE IF fn \in {"v2", "v3", "v5"}
            /\ (data.g1 < 0 \/ data.g1 > 40 \/ data.g2 < 0 \/ data.g2 > 40)
      THEN "Invalid Input"
    ELSE ""

\* handlePredict returns before setLoading(true)
HandlePredictRejects ==
    /\ pc = "form"
    /\ Rejection # ""
    /\ toast' = Rejection
    /\ UNCHANGED <<pc, request, remote, sent, prediction, predictions, alerts, response,
                   fn, data, studentData, useRealData, random, analytics,
                   studentName, result, selectedStudentId, loading, completed>>

\* handlePredict up to the await of the insert into predictions
HandlePredict ==
    /\ pc = "form"
    /\ Rejection = ""
    /\ loading' = TRUE
    /\ result' = PredictionResult
    /\ pc' = "form_inserting"
    /\ UNCHANGED <<request, remote, sent, prediction, predictions, alerts, response,
                   fn, data, studentData, useRealData, random, analytics,
                   studentName, selectedStudentId, toast, completed>>

\* the insert into predictions succeeded
FormInsert ==
    /\ pc = "form_inserting"
    /\ predictions' = Append(predictions, FormRow)
    /\ pc' = "form_stored"
    /\ UNCHANGED <<request, remote, sent, prediction, alerts, response, scoreVars,
                   formVars>>

\* the failed insert without the finally block
FormInsertFailsNoFinally ==
    /\ pc = "form_inserting"
    /\ toast' = "Error"
    /\ pc' = "form_done"
    /\ UNCHANGED <<request, remote, sent, prediction, predictions, alerts, response,
                   scoreVars, selectedStudentId, loading, completed>>

\* the insert resolved with an error: it is thrown, caught, and the finally
\* block ends the loading
FormInsertFails ==
    /\ pc = "form_inserting"
    /\ toast' = "Error"
    /\ loading' = FALSE
    /\ pc' = "form_done"
    /\ UNCHANGED <<request, remote, sent, prediction, predictions, alerts, response,
                   scoreVars, selectedStudentId, completed>>

\* the insert into alerts of the branch taken, succeeded
FormCreateAlert ==
    /\ pc = "form_stored"
    /\ AlertBranch # "none"
    /\ alerts' = Append(alerts, FormAlert(AlertBranch))
    /\ pc' = "form_alerted"
    /\ UNCHANGED <<request, remote, sent, prediction, predictions, response, scoreVars,
                   formVars>>

\* the insert into alerts resolved with an error, which is at most logged
FormCreateAlertFails ==
    /\ pc = "form_stored"
    /\ AlertBranch # "none"
    /\ pc' = "form_alerted"
    /\ UNCHANGED <<request, remote, sent, prediction, predictions, alerts, response,
                   scoreVars, formVars>>

\* setPrediction, onPredictionComplete, the toast, and the finally block
FormComplete ==
    /\ \/ pc = "form_alerted"
       \/ pc = "form_stored" /\ AlertBranch = "none"
    /\ prediction' = result
    /\ completed' = TRUE
    /\ toast' = SuccessToast
    /\ loading' = FALSE
    /\ pc' = "form_done"
    /\ UNCHANGED <<request, remote, sent, predictions, alerts, response, scoreVars,
                   selectedStudentId>>

FormNext ==
    \/ SelectStudent /\ UNCHANGED pageVars
    \/ HandleStudentSelect /\ UNCHANGED pageVars
    \/ HandlePredictRejects /\ UNCHANGED pageVars
    \/ HandlePredict /\ UNCHANGED pageVars
    \/ FormInsert /\ UNCHANGED pageVars
    \/ FormInsertFails /\ UNCHANGED pageVars
    \/ FormCreateAlert /\ UNCHANGED pageVars
    \/ FormCreateAlertFails /\ UNCHANGED pageVars
    \/ FormComplete /\ UNCHANGED pageVars

\* the panel and the page are not looked at
PageIdle ==
    /\ resolvingAlerts = {}
    /\ resolves = <<>>
    /\ dashboard = None
    /\ fetches = <<>>

InitForm == FormInit /\ FormIdle /\ PageIdle

\* one handlePredict of one form, after any number of selections
SpecForm == InitForm /\ [][FormNext]_vars

HandlerIdle ==
    /\ pc = "idle"
    /\ request = None
    /\ remote = None
    /\ sent = None
    /\ prediction = None
    /\ predictions = <<>>
    /\ alerts = <<>>
    /\ response = None

InitScore == ScoreInit /\ HandlerIdle /\ FormIdle /\ PageIdle

SpecScore == InitScore /\ [][ScoreNext]_vars

ScoreIdle ==
    /\ fn = "none"
    /\ data = None
    /\ studentData = None
    /\ useRealData = FALSE
    /\ random = 0
    /\ analytics = <<>>
    /\ studentName = ""
    /\ result = None

Init == HandlerInit /\ ScoreIdle /\ FormIdle /\ PageIdle

Next ==
    \/ HandleOptions /\ UNCHANGED <<scoreVars, formVars, pageVars>>
    \/ ReceiveRequest /\ UNCHANGED <<scoreVars, formVars, pageVars>>
    \/ RemoteSucceeds /\ UNCHANGED <<scoreVars, formVars, pageVars>>
    \/ RemoteFails /\ UNCHANGED <<scoreVars, formVars, pageVars>>
    \/ InsertPrediction /\ UNCHANGED <<scoreVars, formVars, pageVars>>
    \/ InsertPredictionFails /\ UNCHANGED <<scoreVars, formVars, pageVars>>
    \/ CreateAlert /\ UNCHANGED <<scoreVars, formVars, pageVars>>
    \/ CreateAlertFails /\ UNCHANGED <<scoreVars, formVars, pageVars>>
    \/ Respond /\ UNCHANGED <<scoreVars, formVars, pageVars>>

Spec == Init /\ [][Next]_vars

\* the steps the handler takes by itself
HandlerStep ==
    (HandleOptions \/ ReceiveRequest \/ Respond) /\ UNCHANGED <<scoreVars, formVars, pageVars>>

\* index.ts:81: AbortSignal.timeout(10000) aborts the fetch, and the reading of
\* its body, ten seconds after the call
AbortOnTimeout ==
    RemoteFails /\ remote'.kind = "timeout" /\ UNCHANGED <<scoreVars, formVars, pageVars>>

\* the supabase client settles an insert, with or without an error
DatabaseAnswers ==
    /\ \/ InsertPrediction \/ InsertPredictionFails
       \/ CreateAlert \/ CreateAlertFails
    /\ UNCHANGED <<scoreVars, formVars, pageVars>>

\* one invocation under the scheduling the code relies on: the handler's own
\* steps are taken, the timer of the fetch fires, and the database client
\* settles each insert. Nothing is assumed of the remote scorer: it may answer,
\* fail, or stay silent.
SpecLive ==
    /\ Init /\ [][Next]_vars
    /\ WF_vars(HandlerStep)
    /\ WF_vars(AbortOnTimeout)
    /\ WF_vars(DatabaseAnswers)

\* every caller of a scoring function: one invocation of ml-prediction, or one
\* handlePredict of one form
InitCallers == Init \/ InitForm
NextCallers == Next \/ FormNext
SpecCallers == InitCallers /\ [][NextCallers]_vars

-----------------------------------------------------------------------------
(* src/components/AlertsPanel.tsx:24-254: the panel, with several alerts      *)
(* listed; each Resolve button starts one handleResolveAlert.                 *)

\* the alerts the panel lists
AlertIds == {"a1", "a2", "a3"}

\* how often the Resolve button of one alert is pressed
MaxAttempts == 2

\* AlertsPanel.tsx:54: prev => new Set(prev).add(alertId)
AddResolving(prev, alertId) == prev \cup {alertId}

\* the finally block emptying the set
DeleteResolvingAll(prev, alertId) == {}

\* AlertsPanel.tsx:87-91: prev => { newSet.delete(alertId); return newSet }
DeleteResolving(prev, alertId) == prev \ {alertId}

\* the panel as it is mounted: no request was made
PanelInit ==
    /\ pc = "panel"
    /\ resolvingAlerts = {}
    /\ resolves = [a \in AlertIds |-> [phase |-> "idle", attempts |-> 0, updates |-> 0]]
    /\ toast = ""
    /\ selectedStudentId = "" /\ loading = FALSE /\ completed = FALSE
    /\ request = None /\ remote = None /\ sent = None /\ prediction = None
    /\ predictions = <<>> /\ alerts = <<>> /\ response = None
    /\ fn = "none" /\ data = None /\ studentData = None /\ useRealData = FALSE
    /\ random = 0 /\ analytics = <<>> /\ studentName = "" /\ result = None
    /\ dashboard = None /\ fetches = <<>>

\* AlertsPanel.tsx:188-192 and 53-65: the button is enabled, it is pressed,
\* and handleResolveAlert runs up to the await of the update
handleResolveAlert(alertId) ==
    /\ pc = "panel"
    /\ alertId \notin resolvingAlerts
    /\ resolves[alertId].phase \in {"idle", "failed"}
    /\ resolves[alertId].attempts < MaxAttempts
    /\ resolvingAlerts' = AddResolving(resolvingAlerts, alertId)
    /\ resolves' = [resolves EXCEPT ![alertId].phase = "in_flight",
                                    ![alertId].attempts = @ + 1]
    /\ UNCHANGED <<handlerVars, scoreVars, formVars, dashboard, fetches>>

\* AlertsPanel.tsx:67-78 and 86-92: the update succeeded
ResolveSucceeds(alertId) ==
    /\ pc = "panel"
    /\ resolves[alertId].phase = "in_flight"
    /\ resolves' = [resolves EXCEPT ![alertId].phase = "resolved",
                                    ![alertId].updates = @ + 1]
    /\ toast' = "Alert Resolved"
    /\ resolvingAlerts' = DeleteResolving(resolvingAlerts, alertId)
    /\ UNCHANGED <<handlerVars, scoreVars, selectedStudentId, loading, completed,
                   dashboard, fetches>>

\* AlertsPanel.tsx:67-70 and 79-92: the update came back with an error
ResolveFails(alertId) ==
    /\ pc = "panel"
    /\ resolves[alertId].phase = "in_flight"
    /\ resolves' = [resolves EXCEPT ![alertId].phase = "failed"]
    /\ toast' = "Error"
    /\ resolvingAlerts' = DeleteResolving(resolvingAlerts, alertId)
    /\ UNCHANGED <<handlerVars, scoreVars, selectedStudentId, loading, completed,
                   dashboard, fetches>>

PanelNext ==
    \/ \E alertId \in AlertIds : handleResolveAlert(alertId)
    \/ \E alertId \in AlertIds : ResolveSucceeds(alertId)
    \/ \E alertId \in AlertIds : ResolveFails(alertId)

\* the panel under any interleaving of presses and answers
SpecPanel == PanelInit /\ [][PanelNext]_vars

-----------------------------------------------------------------------------
(* src/pages/Dashboard.tsx:334-470: the page with the realtime subscription.  *)
(* What a call of fetchData puts on the page is named by the call: the n-th   *)
(* call to start shows `n`, and 0 is the empty list the state starts with.    *)

\* how many calls of fetchData are looked at
MaxFetches == 3

\* how the query of the student table may end: rows, no row, an error of
\* permission (Dashboard.tsx:383), any other error
StudentsOutcomes == {"rows", "empty", "permission", "error"}

\* Dashboard.tsx:335-338: the state after construction, before the effect ran
DashboardInit ==
    /\ pc = "page"
    /\ dashboard = [students |-> 0, predictions |-> 0, alerts |-> 0, loading |-> TRUE]
    /\ fetches = <<>>
    /\ toast = ""
    /\ resolvingAlerts = {} /\ resolves = <<>>
    /\ selectedStudentId = "" /\ loading = FALSE /\ completed = FALSE
    /\ request = None /\ remote = None /\ sent = None /\ prediction = None
    /\ predictions = <<>> /\ alerts = <<>> /\ response = None
    /\ fn = "none" /\ data = None /\ studentData = None /\ useRealData = FALSE
    /\ random = 0 /\ analytics = <<>> /\ studentName = "" /\ result = None

\* Dashboard.tsx:366-377: fetchData up to the await of the first query
fetchData ==
    /\ Len(fetches) < MaxFetches
    /\ dashboard' = [dashboard EXCEPT !.loading = TRUE]
    /\ fetches' = Append(fetches, [phase |-> "students", students |-> "none"])

\* Dashboard.tsx:341-342: the effect of the mount calls fetchData and subscribes
DashboardMount ==
    /\ pc = "page"
    /\ fetches = <<>>
    /\ fetchData
    /\ UNCHANGED <<handlerVars, scoreVars, formVars, resolvingAlerts, resolves>>

\* Dashboard.tsx:350-357: the callback of a change of the student table
StudentTableChanged ==
    /\ pc = "page"
    /\ fetches # <<>>
    /\ fetchData
    /\ toast' = "Real Data Updated"
    /\ UNCHANGED <<handlerVars, scoreVars, selectedStudentId, loading, completed,
                   resolvingAlerts, resolves>>

\* Dashboard.tsx:464-470
handleNewPrediction ==
    /\ pc = "page"
    /\ fetches # <<>>
    /\ fetchData
    /\ toast' = "Success"
    /\ UNCHANGED <<handlerVars, scoreVars, selectedStudentId, loading, completed,
                   resolvingAlerts, resolves>>

\* Dashboard.tsx:374-408 and 452-461: the student query of call n is answered;
\* an error that is not one of permission is thrown, caught, and the finally
\* block ends the loading
StudentsAnswer(n) ==
    /\ pc = "page"
    /\ fetches[n].phase = "students"
    /\ \E outcome \in StudentsOutcomes :
          IF outcome = "error"
            THEN /\ fetches' = [fetches EXCEPT ![n] = [phase |-> "done",
                                                      students |-> outcome]]
                 /\ toast' = "Database Connection Error"
                 /\ dashboard' = [dashboard EXCEPT !.loading = FALSE]
            ELSE /\ fetches' = [fetches EXCEPT ![n] = [phase |-> "predictions",
                                                      students |-> outcome]]
                 /\ toast' = IF outcome = "permission"
                             THEN "Database Permission Issue" ELSE toast
                 /\ dashboard' = [dashboard EXCEPT !.students = n]
    /\ UNCHANGED <<handlerVars, scoreVars, selectedStudentId, loading, completed,
                   resolvingAlerts, resolves>>

\* Dashboard.tsx:404-421: the predictions query of call n is answered
PredictionsAnswer(n) ==
    /\ pc = "page"
    /\ fetches[n].phase = "predictions"
    /\ fetches' = [fetches EXCEPT ![n].phase = "alerts"]
    /\ UNCHANGED <<handlerVars, scoreVars, formVars, resolvingAlerts, resolves,
                   dashboard>>

\* Dashboard.tsx:417-461: the alerts query of call n is answered
AlertsAnswer(n) ==
    /\ pc = "page"
    /\ fetches[n].phase = "alerts"
    /\ fetches' = [fetches EXCEPT ![n].phase = "done"]
    /\ dashboard' = [dashboard EXCEPT !.predictions = n, !.alerts = n,
                                      !.loading = FALSE]
    /\ toast' = CASE fetches[n].students = "rows" -> "Database Connected Successfully"
                  [] fetches[n].students = "empty" -> "No Student Data"
                  [] OTHER -> toast
    /\ UNCHANGED <<handlerVars, scoreVars, selectedStudentId, loading, completed,
                   resolvingAlerts, resolves>>

DashboardNext ==
    \/ DashboardMount
    \/ StudentTableChanged
    \/ handleNewPrediction
    \/ \E n \in 1..Len(fetches) : StudentsAnswer(n)
    \/ \E n \in 1..Len(fetches) : PredictionsAnswer(n)
    \/ \E n \in 1..Len(fetches) : AlertsAnswer(n)

\* the page, its subscription, and the answers of the database in any order
SpecDashboard == DashboardInit /\ [][DashboardNext]_vars

-----------------------------------------------------------------------------
(* unnamed/part_002:64-166: the form that asks the edge function; the         *)
(* function's steps are those of the handler above, on the form's request.    *)
(* `result` is the form's prediction state (data.prediction once set).        *)

\* part_002:65-85: the form as it is filled in, a record selected or none
ColabFormInit ==
    /\ pc = "colab_form"
    /\ fn = "colab"
    /\ data \in RequestFeatures
    /\ selectedStudentId \in {"", "1"}
    /\ loading = FALSE /\ toast = "" /\ completed = FALSE
    /\ result = None
    /\ studentData = None /\ useRealData = FALSE
    /\ random = 0 /\ analytics = <<>> /\ studentName = ""
    /\ request = None /\ remote = None /\ sent = None /\ prediction = None
    /\ predictions = <<>> /\ alerts = <<>> /\ response = None
    /\ resolvingAlerts = {} /\ resolves = <<>>
    /\ dashboard = None /\ fetches = <<>>

\* part_002:125-136: handlePredict up to the await of functions.invoke
HandlePredictColab ==
    /\ pc = "colab_form"
    /\ loading' = TRUE
    /\ pc' = "invoking"
    /\ UNCHANGED <<request, remote, sent, prediction, predictions, alerts, response,
                   scoreVars, selectedStudentId, toast, completed, pageVars>>

\* part_002:131-136 and index.ts:43-82: the function receives the form's body
InvokeReaches ==
    /\ pc = "invoking"
    /\ request' = [student_id |-> OrStr(selectedStudentId, "custom_analytics"),
                   features |-> data]
    /\ sent' = ColabRequest(data)
    /\ pc' = "fetching"
    /\ UNCHANGED <<remote, prediction, predictions, alerts, response,
                   scoreVars, formVars, pageVars>>

\* part_002:138-141 and 156-165: the call did not reach the function
InvokeFails ==
    /\ pc = "invoking"
    /\ toast' = "Colab Backend Error"
    /\ loading' = FALSE
    /\ pc' = "form_done"
    /\ UNCHANGED <<request, remote, sent, prediction, predictions, alerts, response,
                   scoreVars, selectedStudentId, completed, pageVars>>

\* part_002:138-165: the function answered; a status that is not 2xx is the
\* `error` of invoke
InvokeSettles ==
    /\ pc = "done" /\ fn = "colab"
    /\ IF response.status = 200 /\ response.body.success
         THEN /\ result' = response.body.prediction
              /\ completed' = TRUE
              /\ toast' = "Colab Backend Prediction Complete"
         ELSE /\ toast' = "Colab Backend Error"
              /\ UNCHANGED <<result, completed>>
    /\ loading' = FALSE
    /\ pc' = "form_done"
    /\ UNCHANGED <<request, remote, sent, prediction, predictions, alerts, response,
                   inputVars, selectedStudentId, pageVars>>

ColabNext ==
    \/ HandlePredictColab
    \/ InvokeReaches
    \/ InvokeFails
    \/ InvokeSettles
    \/ RemoteSucceeds /\ UNCHANGED <<scoreVars, formVars, pageVars>>
    \/ RemoteFails /\ UNCHANGED <<scoreVars, formVars, pageVars>>
    \/ InsertPrediction /\ UNCHANGED <<scoreVars, formVars, pageVars>>
    \/ InsertPredictionFails /\ UNCHANGED <<scoreVars, formVars, pageVars>>
    \/ CreateAlert /\ UNCHANGED <<scoreVars, formVars, pageVars>>
    \/ CreateAlertFails /\ UNCHANGED <<scoreVars, formVars, pageVars>>
    \/ Respond /\ UNCHANGED <<scoreVars, formVars, pageVars>>

\* one handlePredict of any form
InitPredict == InitForm \/ ColabFormInit
NextPredict == FormNext \/ ColabNext
SpecPredict == InitPredict /\ [][NextPredict]_vars

-----------------------------------------------------------------------------
(* The claims *)

RiskLevels == {"low", "medium", "high"}

\* the request was dispatched: the try/catch of index.ts:53-105 has run
Dispatched == prediction # None

RemoteOk == remote # None /\ remote.kind = "ok"
RemoteFailed == remote # None /\ remote.kind # "ok"

\* C1: whatever the remote call came to, the dispatch yields a usable
\* PredictionResult: predicted_score a number in [0, 20], confidence_level a
\* number in [0, 100], risk_level one of low/medium/high, intervention_summary
\* not empty.  (Violated: a 2xx body's score is passed on unclamped, or undefined.)
C1_DispatchUsable ==
    Dispatched =>
        /\ prediction.predicted_score # Undefined
        /\ prediction.predicted_score >= 0 /\ prediction.predicted_score <= 200000
        /\ prediction.confidence_level # Undefined
        /\ prediction.confidence_level >= 0 /\ prediction.confidence_level <= 1000000
        /\ prediction.risk_level \in RiskLevels
        /\ Len(prediction.intervention_summary) > 0

\* C2: when the remote call fails (non-2xx, timeout, network error, unparseable
\* body) the dispatch yields the result of generateLocalPrediction on the
\* request's features, with risk_level and intervention_summary populated, and
\* the failure does not reach the caller: the only error response is the one of
\* a failed insert.
C2_FallbackTotality ==
    RemoteFailed =>
        /\ Dispatched
        /\ \A k \in DOMAIN generateLocalPrediction(request.features) :
              prediction[k] = generateLocalPrediction(request.features)[k]
        /\ prediction.risk_level \in RiskLevels
        /\ Len(prediction.intervention_summary) > 0
        /\ pc = "done" =>
              \/ response.status = 200 /\ response.body.success
                 /\ response.body.prediction.risk_level = prediction.risk_level
                 /\ response.body.prediction.intervention_summary
                      = prediction.intervention_summary
              \/ response.status = 500 /\ predictions = <<>>

\* C2 witness: a timed-out remote call answered with the stored fallback result
C2_Witness ==
    /\ pc = "done"
    /\ RemoteFailed /\ remote.kind = "timeout"
    /\ response.status = 200
    /\ response.body.backend_used = "fallback"
    /\ Len(response.body.prediction.intervention_summary) > 0

\* the result is the local pipeline's
LocalProduced == prediction.model_version = "local-fallback-v2.0"

\* C5 as stated: backend_source (returned as backend_used) is 'colab' exactly
\* when the remote call returned a 2xx response with a parseable body, and
\* 'fallback' exactly when the local pipeline produced the result.
C5_ProvenanceAsStated ==
    Dispatched =>
        /\ prediction.backend_source \in {"colab", "fallback"}
        /\ (prediction.backend_source = "colab") <=> RemoteOk
        /\ (prediction.backend_source = "fallback") <=> LocalProduced
        /\ (pc = "done" /\ response.status = 200) =>
              response.body.backend_used = prediction.backend_source

\* C5 amended: backend_source is 'colab' exactly when the remote call returned
\* a 2xx response whose body parses to a value other than null (reading a
\* property of null throws, and the catch block falls back), and 'fallback'
\* exactly when the local pipeline produced the result; backend_used is
\* backend_source.
C5_Provenance ==
    Dispatched =>
        /\ prediction.backend_source \in {"colab", "fallback"}
        /\ (prediction.backend_source = "colab")
              <=> (RemoteOk /\ remote.body # JsonNull)
        /\ (prediction.backend_source = "fallback") <=> LocalProduced
        /\ (pc = "done" /\ response.status = 200) =>
              response.body.backend_used = prediction.backend_source

\* C5 witness: a 2xx response with an object body, answered as 'colab'
C5_Witness ==
    /\ pc = "done"
    /\ RemoteOk /\ remote.body # JsonNull
    /\ response.status = 200
    /\ response.body.backend_used = "colab"
    /\ response.body.prediction.model_version = "colab-backend-v1.0"

\* C6: a 2xx body without risk_level gets the risk the local classifier gives
\* the same score (below 8 high, below 12 medium, else low).
\* (Violated: index.ts:91 cuts at 10 and 14.)
C6_SameThresholds ==
    ( /\ RemoteOk /\ remote.body # JsonNull
      /\ remote.body.risk_level = UndefinedStr
      /\ prediction.predicted_score # Undefined ) =>
        prediction.risk_level = LocalRisk(prediction.predicted_score)

\* C7: on a 2xx response every field the body carries is used as given and only
\* a missing one is computed: confidence_level is the body's confidence when
\* present (0 included) and 85 when absent; intervention_summary is the body's
\* intervention when present and the generated text when absent.
\* (Violated: `||` takes a confidence of 0 for a missing one.)
C7_FieldsUsedAsGiven ==
    (RemoteOk /\ remote.body # JsonNull) =>
        /\ prediction.confidence_level =
              IF remote.body.confidence # Undefined THEN remote.body.confidence
              ELSE DefaultConfidence
        /\ prediction.intervention_summary =
              IF remote.body.intervention # UndefinedText THEN remote.body.intervention
              ELSE generateFallbackIntervention(prediction.predicted_score,
                                                request.features)

\* the score the applied function classifies: clamped, not yet rounded
UnroundedScore ==
    CASE fn = "v1" -> MockClamp(MockWeightedScore(data))
      [] fn = "v2" -> ClampV2(RawScoreV2(data))
      [] fn = "v3" -> ClampV3(RawScoreV3(data, studentData))
      [] fn = "v4" -> ClampV4(RawScoreV4(analytics))
      [] fn = "v5" -> ClampV5(RawScoreV5(data, studentData))
      [] fn = "v6" -> ClampV6(RawScoreV6(data, studentData, useRealData))
      [] fn = "local" -> LocalClamp(LocalRawScore(data))

\* C3: every local scoring variant (v1.0 to v6.0, generateLocalPrediction)
\* returns a predicted_score in [0, 20] on every input within the sliders' ranges
C3_ScoreInRange ==
    result # None =>
        result.predicted_score >= 0 /\ result.predicted_score <= 200000

\* C3 witness: v6.0 applied to an input whose terms sum to more than 20
C3_Witness ==
    /\ result # None /\ fn = "v6"
    /\ RawScoreV6(data, studentData, useRealData) > 200000
    /\ result.predicted_score = 200000

\* C4: every local scoring variant returns a confidence_level in [0, 100] on
\* every input within the sliders' ranges, with or without a backing student
\* record
C4_ConfidenceInRange ==
    result # None =>
        result.confidence_level >= 0 /\ result.confidence_level <= 1000000

\* C4 witness: v6.0 without a record, at the unstable end of the sliders, where
\* nothing but the sliders' ranges keeps the confidence above 0
C4_Witness ==
    /\ result # None /\ fn = "v6" /\ studentData = None
    /\ data.absences = 25 /\ Abs(data.g2 - data.g1) = 40
    /\ result.confidence_level < 500000

\* the absences of the input: the field of the FeatureSet, or for v4.0 the value
\* of an analytic the code takes for an absence count
InputAbsences ==
    IF fn = "v4"
      THEN IF \E i \in 1..Len(analytics) : AnalyticKind(analytics[i].name) = "absence"
             THEN CHOOSE v \in 0..100 :
                    /\ \E i \in 1..Len(analytics) :
                          /\ AnalyticKind(analytics[i].name) = "absence"
                          /\ analytics[i].value = v
                    /\ \A i \in 1..Len(analytics) :
                          AnalyticKind(analytics[i].name) = "absence"
                             => analytics[i].value <= v
             ELSE 0
      ELSE data.absences

\* an override condition of the risk classifier holds
AbsencesOverride == InputAbsences > 8
SentimentOverride == fn # "v4" /\ data.emotional_sentiment < 30
VarianceOverride == fn = "v4" /\ ValueVariance(analytics) > 300000
RecordG2Override ==
    studentData # None /\ studentData.G2 # Undefined /\ studentData.G2 < 10
AlcoholOverride == studentData # None /\ AlcoholSum(studentData) > 6

\* C8: in every local scoring variant a score of exactly 8 is medium, a score
\* below 8 (7.99) is high, and a score of exactly 12 with no override condition
\* is low.  (Violated: v1.0 cuts at 10 and 14.)
C8_Boundary ==
    result # None =>
        /\ UnroundedScore = 80000 => result.risk_level = "medium"
        /\ UnroundedScore < 80000 => result.risk_level = "high"
        /\ ( /\ UnroundedScore = 120000
             /\ ~AbsencesOverride /\ ~SentimentOverride
             /\ ~RecordG2Override /\ ~AlcoholOverride
             /\ ~VarianceOverride ) => result.risk_level = "low"

\* C9: in every local scoring variant a predicted_score of at least 16 with
\* more than 8 absences is at least medium.
\* (Violated: v1.0 and generateLocalPrediction do not look at absences.)
C9_OverrideEscalation ==
    (result # None /\ result.predicted_score >= 160000 /\ AbsencesOverride) =>
        result.risk_level \in {"medium", "high"}

\* C10, for the variants that have the four override rules (v5.0, v6.0): a
\* score below 8 is high whatever the overrides, a score in [8, 12) is medium,
\* and any single override condition (absences > 8, emotional_sentiment < 0.3,
\* record G2 < 10, record Dalc + Walc > 6) turns a score-driven low into medium.
\* (Violated: a record G2 of 0 is falsy and is not taken for a G2 below 10.)
C10_OverridesOnlyEscalate ==
    (result # None /\ fn \in {"v5", "v6"}) =>
        /\ UnroundedScore < 80000 => result.risk_level = "high"
        /\ (UnroundedScore >= 80000 /\ UnroundedScore < 120000) =>
              result.risk_level = "medium"
        /\ ( /\ UnroundedScore >= 120000
             /\ \/ AbsencesOverride \/ SentimentOverride
                \/ RecordG2Override \/ AlcoholOverride ) =>
              result.risk_level = "medium"

\* the function the state applies, called on the FeatureSet d with the state's
\* record (and the state's Math.random() value)
ApplyTo(d) ==
    CASE fn = "v1" -> mockMLPrediction(d, random)
      [] fn = "v2" -> enhancedMLPrediction_v2(d)
      [] fn = "v3" -> enhancedMLPrediction_v3(d, studentData)
      [] fn = "v5" -> enhancedMLPrediction_v5(d, studentData)
      [] fn = "v6" -> enhancedMLPrediction_v6(d, studentData, useRealData)
      [] fn = "local" -> generateLocalPrediction(d)

\* the variants whose input is a FeatureSet (v4.0 takes a list of analytics)
FeatureSetVariants == {"v1", "v2", "v3", "v5", "v6", "local"}

\* the input with g2 set to g1, everything else as it is
LevelGrades == [data EXCEPT !.g2 = data.g1]

\* C11: monotonicity in g2.  In every variant that reads g1 and g2, with all
\* other features and the record fixed, an input with g2 > g1 never scores
\* lower than the same input with g2 = g1, and one with g2 < g1 never scores
\* higher.
C11_MonotoneInG2 ==
    (result # None /\ fn \in FeatureSetVariants) =>
        /\ data.g2 > data.g1 =>
              result.predicted_score >= ApplyTo(LevelGrades).predicted_score
        /\ data.g2 < data.g1 =>
              result.predicted_score <= ApplyTo(LevelGrades).predicted_score

\* C11 witness: v2.0 on an input with g2 > g1 that scores strictly higher than
\* with g2 = g1, neither score on a bound of the clamp
C11_Witness ==
    /\ result # None /\ fn = "v2"
    /\ data.g2 > data.g1
    /\ result.predicted_score < 200000
    /\ ApplyTo(LevelGrades).predicted_score > 20000
    /\ result.predicted_score > ApplyTo(LevelGrades).predicted_score

\* a call of the state's function on the state's input, in which Math.random()
\* returns r
CallWith(r) ==
    IF fn = "v4" THEN flexibleMLPrediction(analytics, studentName)
    ELSE IF fn = "v1" THEN mockMLPrediction(data, r)
    ELSE ApplyTo(data)

\* C12: determinism.  A second call with the identical input (and record) gives
\* the identical result, whatever Math.random() returns in it: the same
\* predicted_score, confidence_level, risk_level and intervention_summary.
\* (Violated: the confidence of v1.0 is Math.random() * 30 + 70.)
C12_Deterministic ==
    result # None =>
        \A r \in RandomValues :
            /\ CallWith(r).predicted_score = result.predicted_score
            /\ CallWith(r).confidence_level = result.confidence_level
            /\ CallWith(r).risk_level = result.risk_level
            /\ CallWith(r).intervention_summary = result.intervention_summary

\* the urgency suffixes of the intervention generators
HighSuffixes ==
    { "Immediate attention required.",
      "HIGH PRIORITY - Immediate intervention required.",
      "HIGH PRIORITY - Immediate comprehensive intervention required within 48 hours." }
MediumSuffixes ==
    { "Monitor progress closely.",
      "Monitor progress closely and implement changes within 2 weeks.",
      "Monitor progress closely and implement targeted changes within 1 week.",
      "Monitor progress and implement changes within 2 weeks." }

\* the last piece of a text
LastPiece(text) == text[Len(text)]

\* C13: the specification's example, applied without a record, gets risk_level
\* high and a summary that ends with the high-priority suffix, in every variant
\* that takes a FeatureSet.
\* (Violated: v6.0 scores it 8.86, medium; generateLocalPrediction 12.08, low.)
C13_Example ==
    ( /\ result # None /\ fn \in FeatureSetVariants
      /\ data = ExampleInput /\ studentData = None ) =>
        /\ result.risk_level = "high"
        /\ LastPiece(result.intervention_summary) \in HighSuffixes

\* C14: a summary generated for risk high ends with the high-priority suffix,
\* one generated for risk medium ends with the monitor suffix, whether or not
\* an intervention item was triggered, and one generated for risk low carries
\* no urgency suffix.
\* (Violated: generateFallbackIntervention appends no suffix at all.)
C14_UrgencySuffix ==
    result # None =>
        /\ result.risk_level = "high" =>
              LastPiece(result.intervention_summary) \in HighSuffixes
        /\ result.risk_level = "medium" =>
              LastPiece(result.intervention_summary) \in MediumSuffixes
        /\ result.risk_level = "low" =>
              \A i \in 1..Len(result.intervention_summary) :
                  result.intervention_summary[i] \notin HighSuffixes \cup MediumSuffixes

\* ---- C15 ----
\* the variants whose handlePredict also alerts on a medium risk
LaterVariants == {"v2", "v3", "v5", "v6"}
\* the prediction row of this run is stored and the alert step is next
RowStored == pc \in {"stored", "form_stored"}
\* the caller went through its alert step
AlertStepDone == pc \in {"alerted", "form_alerted"}
\* the caller finished after storing its prediction row
FinishedStored == pc \in {"done", "form_done"} /\ Len(predictions) = 1
\* risk_level of the stored row
StoredRisk == predictions[Len(predictions)].risk_level
\* the stored risk calls for an alert
AlertDue ==
    \/ StoredRisk = "high"
    \/ StoredRisk = "medium" /\ fn \in LaterVariants

\* C15 as stated: once a caller has stored its prediction row and finished,
\* there is exactly one alert, of the row's severity, when the risk is high (or
\* medium in v2.0, v3.0, v5.0, v6.0), and no alert otherwise.
C15_AlertInserted ==
    FinishedStored =>
        IF AlertDue THEN Len(alerts) = 1 /\ alerts[1].severity = StoredRisk
        ELSE Len(alerts) = 0

\* C15, amended: after the prediction row is stored the caller issues one insert
\* into alerts exactly when the risk is high (or medium in v2.0, v3.0, v5.0,
\* v6.0); the insert adds one alert whose severity is the row's risk_level, or
\* fails and adds nothing, and the caller goes on either way. No other step
\* touches the alerts, so there is at most one alert per prediction and none
\* for a low risk.
C15_AlertIssued ==
    [][ /\ (RowStored /\ pc' # pc) =>
             IF AlertDue
               THEN /\ AlertStepDone'
                    /\ \/ alerts' = alerts
                       \/ /\ Len(alerts') = Len(alerts) + 1
                          /\ alerts'[Len(alerts')].severity = StoredRisk
               ELSE alerts' = alerts /\ ~AlertStepDone'
        /\ ~RowStored => alerts' = alerts
        /\ Len(alerts') <= Len(predictions') ]_vars

\* a later variant finished with the alert of a medium risk
C15_Witness ==
    /\ pc = "form_done" /\ fn \in LaterVariants
    /\ Len(alerts) = 1 /\ alerts[1].severity = "medium" /\ StoredRisk = "medium"

\* ---- C16 ----
\* the record has a value for a field
Has(x) == x # Undefined
\* the record has a G1 string
HasG1 == studentData.G1 # UndefinedStr
\* a record was loaded into the form and no prediction asked for yet
RecordLoaded == pc = "form" /\ studentData # None
\* the fields handleStudentSelect of every variant loads
GradesPreferred ==
    /\ Has(studentData.studytime) => data.studytime = studentData.studytime
    /\ HasG1 => data.g1 = parseFloat(studentData.G1)
    /\ Has(studentData.G2) => data.g2 = 2 * studentData.G2
    /\ Has(studentData.absences) => data.absences = studentData.absences
\* the further fields v6.0 loads and derives
ExtendedPreferred ==
    /\ Has(studentData.famrel) => data.family_support = studentData.famrel
    /\ Has(studentData.health) => data.health_score = studentData.health
    /\ Has(studentData.goout) => data.social_activity = studentData.goout
    /\ data.attendance_rate = Max(0, 100 - 3 * data.absences)
    /\ (Has(studentData.Dalc) /\ Has(studentData.Walc)) =>
           data.alcohol_consumption = studentData.Dalc + studentData.Walc

\* C16: after handleStudentSelect loaded a record, every overlapping form field
\* has the record's value when the record has one (0 included), attendance_rate
\* is max(0, 100 - 3 * absences) of the absences in the form, and
\* alcohol_consumption is the mean of Dalc and Walc.
C16_RecordPreferred ==
    RecordLoaded =>
        /\ GradesPreferred
        /\ fn = "v6" => ExtendedPreferred

\* ---- C17 ----
\* C17: no handlePredict turns a request down for a grade outside [0, 20] (the
\* "Invalid Input" toast is never shown), and the score of a row that is stored
\* lies within [0, 20].
C17_NoRangeRejection ==
    /\ toast # "Invalid Input"
    /\ pc = "form_stored" => predictions[1].predicted_score \in 0..200000

\* ---- C18 ----
\* the order of the features in the array the remote scorer is sent
FeatureOrder ==
    << "age", "studytime", "g1", "g2", "absences", "effort_score",
       "emotional_sentiment", "participation_index", "family_support",
       "health_score", "social_activity", "alcohol_consumption",
       "attendance_rate", "motivation_level", "stress_level" >>

\* C18: the request sent to the remote scorer carries a features array of
\* exactly 15 numbers, the i-th being the field of the request's features that
\* the fixed order names at i.
C18_FeatureArray ==
    sent # None =>
        LET array == sent.body.features
        IN  /\ Len(array) = 15
            /\ \A i \in 1..15 :
                  /\ array[i] \in Int
                  /\ array[i] = request.features[FeatureOrder[i]]

\* a request in flight whose two grades differ
C18_Witness ==
    /\ pc = "fetching" /\ sent # None
    /\ sent.body.features[3] = 20 /\ sent.body.features[4] = 24
    /\ sent.method = "POST"

VariantTag ==
    [ v1 |-> "v1.0", v2 |-> "v2.0-enhanced", v3 |-> "v3.0-real-data-enhanced",
      v4 |-> "v4.0-flexible-analytics", v5 |-> "v5.0-real-database-enhanced",
      v6 |-> "v6.0-supabase-enhanced" ]
\* a field named model_version in the form data or in the prediction result
Forged == [model_version |-> "forged"]
\* the remote scorer's answer was read and used
RemoteProduced == RemoteOk /\ remote.body # JsonNull

\* C20: every stored prediction row carries the tag of the variant that
\* produced it: in the handler 'colab-backend-v1.0' exactly when the remote
\* scorer's answer was used and 'local-fallback-v2.0' exactly when it was not,
\* the row then holding the result of generateLocalPrediction; in a form the form's own tag, also
\* when its data or its result bring a model_version of their own.
C20_ModelVersion ==
    /\ \A i \in 1..Len(predictions) :
          IF fn \in Forms
            THEN predictions[i].model_version = VariantTag[fn]
            ELSE /\ predictions[i].model_version \in
                        {"colab-backend-v1.0", "local-fallback-v2.0"}
                 /\ predictions[i].model_version = "colab-backend-v1.0"
                        <=> RemoteProduced
                 /\ predictions[i].model_version = "local-fallback-v2.0"
                        <=> ~RemoteProduced
                 /\ ~RemoteProduced =>
                        \A k \in DOMAIN generateLocalPrediction(request.features) :
                           predictions[i][k] =
                               generateLocalPrediction(request.features)[k]
    /\ (fn \in Forms /\ result # None) =>
          FormRowOf(Forged @@ data, Forged @@ result).model_version = VariantTag[fn]

\* the v3.0 form stored the row of a loaded record under its own tag
C20_Witness ==
    /\ pc = "form_done" /\ fn = "v3" /\ studentData # None
    /\ Len(predictions) = 1
    /\ predictions[1].model_version = "v3.0-real-data-enhanced"

\* ---- C21 ----
\* the sum of the active terms of the applied function, before any bounding
RawScore ==
    CASE fn = "v1" -> MockWeightedScore(data)
      [] fn = "v2" -> RawScoreV2(data)
      [] fn = "v3" -> RawScoreV3(data, studentData)
      [] fn = "v4" -> RawScoreV4(analytics)
      [] fn = "v5" -> RawScoreV5(data, studentData)
      [] fn = "v6" -> RawScoreV6(data, studentData, useRealData)
      [] fn = "local" -> LocalRawScore(data)

\* C21: the predicted_score a local scoring variant returns is the sum of its
\* terms clamped to [0, 20] and rounded to 2 decimals, with no other bounding
\* (a sum in [0, 2) is returned as it is, rounded).
C21_ClampedSum ==
    result # None =>
        result.predicted_score = Round2(Max(0, Min(200000, RawScore)))

\* ---- C22 ----
\* the score a 2xx body carries: predicted_score when present, else prediction
RemoteScore ==
    IF remote.body.predicted_score # Undefined THEN remote.body.predicted_score
    ELSE remote.body.prediction

\* C22: the result mapped from a 2xx body has the body's score as its
\* predicted_score (taken from `prediction` when `predicted_score` is absent, and
\* 0 when the body says 0), and a risk_level the body lacks is derived from that
\* same score.
C22_RemoteScoreMapped ==
    (Dispatched /\ RemoteProduced) =>
        /\ prediction.predicted_score = RemoteScore
        /\ remote.body.risk_level = UndefinedStr =>
              prediction.risk_level = ColabRisk(RemoteScore)

\* ---- C23 ----
\* the sum of the instability measures the applied function averages, for the
\* FeatureSet d and the record sd (v1.0 and the local fallback average none:
\* the measures of v3.0 to v6.0 stand for the proxy)
VarianceProxy(d, sd) ==
    CASE fn = "v2" -> Abs(d.g2 - d.g1) * 5000 + d.absences * 10000
                      + Abs(d.emotional_sentiment - 50) * 200
                      + (Abs(d.effort_score - 75) * 10000) \div 75
      [] fn = "v3" -> VarianceTerms(d) + (IF sd # None THEN 0 ELSE 20000)
      [] fn = "v5" -> VarianceTerms(d) + (IF sd # None THEN 0 ELSE 30000)
      [] fn = "v6" -> VarianceTerms(d) + (IF sd # None THEN 0 ELSE 40000)
      [] OTHER -> VarianceTerms(d)

\* confidence_level of a call of the applied function on d and sd, r being
\* what Math.random() returns in that call
ConfidenceOf(d, sd, r) ==
    CASE fn = "v1" -> Round2(MockConfidence(r))
      [] fn = "v2" -> Round2(ConfidenceV2(d))
      [] fn = "v3" -> Round2(ConfidenceV3(d, sd))
      [] fn = "v5" -> Round2(ConfidenceV5(d, sd))
      [] fn = "v6" -> Round2(ConfidenceV6(d, sd, sd # None))
      [] fn = "local" -> Round0(LocalConfidence(d))

\* the FeatureSets that differ from d only in inputs of the instability measures
Unsteadier(d) ==
    { [d EXCEPT !.g2 = g2, !.absences = ab, !.emotional_sentiment = es,
                !.effort_score = ef] :
        g2 \in {0, 24, 40}, ab \in {0, 9, 25}, es \in {0, 60, 100},
        ef \in {10, 75, 100} }

\* the records the variants with a record may be called with instead
OtherRecords ==
    IF fn \in {"v3", "v5", "v6"} THEN {studentData, None} ELSE {studentData}

\* C23: a call on a FeatureSet that differs only in the instability inputs (or
\* in having no record) and has the larger variance proxy never returns the
\* larger confidence_level, participation_index being equal.
C23_ConfidenceMonotone ==
    (result # None /\ fn \in FeatureSetVariants) =>
        \A d \in Unsteadier(data), sd \in OtherRecords, r \in RandomValues :
            VarianceProxy(d, sd) > VarianceProxy(data, studentData) =>
                ConfidenceOf(d, sd, r) <= result.confidence_level

\* ---- C24 ----
\* the items the generators of the FeatureSet variants push: the list an item
\* goes to, the field that triggers it, and the place of that field in the
\* order record insights (1), studytime (2), attendance or absences (3),
\* effort_score (4), participation_index (5), emotional_sentiment (6),
\* stress_level (7), motivation_level (8), grade trend (9)
SummaryItems ==
    {
      [ text |-> "Strong historical final performance",
        kind |-> "strength", field |-> "G3", slot |-> 1 ],
      [ text |-> "Good family support system",
        kind |-> "strength", field |-> "famrel", slot |-> 1 ],
      [ text |-> "Strong historical final performance in database",
        kind |-> "strength", field |-> "G3", slot |-> 1 ],
      [ text |-> "Good family support system (verified in database)",
        kind |-> "strength", field |-> "famrel", slot |-> 1 ],
      [ text |-> "Strong study time commitment",
        kind |-> "strength", field |-> "studytime", slot |-> 2 ],
      [ text |-> "Excellent study time commitment",
        kind |-> "strength", field |-> "studytime", slot |-> 2 ],
      [ text |-> "Excellent attendance record",
        kind |-> "strength", field |-> "attendance", slot |-> 3 ],
      [ text |-> "Outstanding attendance record",
        kind |-> "strength", field |-> "attendance", slot |-> 3 ],
      [ text |-> "High effort and motivation levels",
        kind |-> "strength", field |-> "effort_score", slot |-> 4 ],
      [ text |-> "Active class participant",
        kind |-> "strength", field |-> "participation_index", slot |-> 5 ],
      [ text |-> "Active and engaged class participant",
        kind |-> "strength", field |-> "participation_index", slot |-> 5 ],
      [ text |-> "Positive emotional state",
        kind |-> "strength", field |-> "emotional_sentiment", slot |-> 6 ],
      [ text |-> "Positive emotional state and well-being",
        kind |-> "strength", field |-> "emotional_sentiment", slot |-> 6 ],
      [ text |-> "Showing academic improvement",
        kind |-> "strength", field |-> "trend", slot |-> 9 ],
      [ text |-> "Positive academic improvement trend",
        kind |-> "strength", field |-> "trend", slot |-> 9 ],
      [ text |-> "Analysis based on REAL Supabase database record",
        kind |-> "intervention", field |-> "record", slot |-> 1 ],
      [ text |-> "Address health concerns that may impact learning",
        kind |-> "intervention", field |-> "health", slot |-> 1 ],
      [ text |-> "Address health concerns documented in student record",
        kind |-> "intervention", field |-> "health", slot |-> 1 ],
      [ text |-> "Provide additional academic support to compensate for limited family educational background",
        kind |-> "intervention", field |-> "parents", slot |-> 1 ],
      [ text |-> "Increase study time",
        kind |-> "intervention", field |-> "studytime", slot |-> 2 ],
      [ text |-> "Increase study time allocation",
        kind |-> "intervention", field |-> "studytime", slot |-> 2 ],
      [ text |-> "Implement structured study schedule with 30-45 min focused sessions",
        kind |-> "intervention", field |-> "studytime", slot |-> 2 ],
      [ text |-> "Implement structured study schedule with 45-60 min focused sessions",
        kind |-> "intervention", field |-> "studytime", slot |-> 2 ],
      [ text |-> "Improve attendance",
        kind |-> "intervention", field |-> "attendance", slot |-> 3 ],
      [ text |-> "Address attendance issues",
        kind |-> "intervention", field |-> "attendance", slot |-> 3 ],
      [ text |-> "Address attendance patterns - consider flexible scheduling or support",
        kind |-> "intervention", field |-> "attendance", slot |-> 3 ],
      [ text |-> "Critical: Address attendance issues immediately - consider support services",
        kind |-> "intervention", field |-> "attendance", slot |-> 3 ],
      [ text |-> "Motivational support needed",
        kind |-> "intervention", field |-> "effort_score", slot |-> 4 ],
      [ text |-> "Motivational coaching and goal-setting sessions needed",
        kind |-> "intervention", field |-> "effort_score", slot |-> 4 ],
      [ text |-> "Urgent: Motivational coaching and personalized goal-setting sessions",
        kind |-> "intervention", field |-> "effort_score", slot |-> 4 ],
      [ text |-> "Encourage class participation",
        kind |-> "intervention", field |-> "participation_index", slot |-> 5 ],
      [ text |-> "Encourage active participation through smaller group activities",
        kind |-> "intervention", field |-> "participation_index", slot |-> 5 ],
      [ text |-> "Encourage active participation through smaller group activities and confidence building",
        kind |-> "intervention", field |-> "participation_index", slot |-> 5 ],
      [ text |-> "Emotional support needed",
        kind |-> "intervention", field |-> "emotional_sentiment", slot |-> 6 ],
      [ text |-> "Emotional support recommended",
        kind |-> "intervention", field |-> "emotional_sentiment", slot |-> 6 ],
      [ text |-> "Emotional support and stress management resources recommended",
        kind |-> "intervention", field |-> "emotional_sentiment", slot |-> 6 ],
      [ text |-> "Priority: Emotional support and comprehensive stress management resources",
        kind |-> "intervention", field |-> "emotional_sentiment", slot |-> 6 ],
      [ text |-> "Stress management required",
        kind |-> "intervention", field |-> "stress_level", slot |-> 7 ],
      [ text |-> "High stress levels detected - implement relaxation techniques and workload management",
        kind |-> "intervention", field |-> "stress_level", slot |-> 7 ],
      [ text |-> "Focus on intrinsic motivation through personalized learning goals",
        kind |-> "intervention", field |-> "motivation_level", slot |-> 8 ],
      [ text |-> "Focus on recent learning gaps - review G2 topics comprehensively",
        kind |-> "intervention", field |-> "trend", slot |-> 9 ],
      [ text |-> "Urgent: Address recent academic decline - comprehensive review of G2 topics",
        kind |-> "intervention", field |-> "trend", slot |-> 9 ] }

\* the messages emitted when no intervention was pushed
PerformingWell ==
    { "Student performing well. Continue current approach.",
      "Student is performing well. Continue current approach.",
      "Student is performing well across all metrics. Continue current approach with minor optimizations.",
      "Student is performing excellently across all metrics. Continue current approach with minor optimizations." }

ItemTexts == { it.text : it \in SummaryItems }
ItemOf(text) == CHOOSE it \in SummaryItems : it.text = text

\* the items of the summary returned, in the order they appear in it
ReturnedItems ==
    SelectSeq(result.intervention_summary, LAMBDA piece : piece \in ItemTexts)

\* the strengths come first, no field is behind an item of each list, and the
\* 'performing well' message is there exactly when no intervention is
SegmentsInOrder ==
    LET items == ReturnedItems
        summary == result.intervention_summary
    IN  /\ \A i, j \in 1..Len(items) :
              (i < j /\ ItemOf(items[i]).kind = "intervention")
                  => ItemOf(items[j]).kind = "intervention"
        /\ \A i, j \in 1..Len(items) :
              (i # j) => ItemOf(items[i]).field # ItemOf(items[j]).field
        /\ (\E k \in 1..Len(summary) : summary[k] \in PerformingWell)
              <=> (\A i \in 1..Len(items) : ItemOf(items[i]).kind = "strength")

\* the items of each list follow the order given by `place`
ItemsFollow(place(_)) ==
    LET items == ReturnedItems
    IN  \A i, j \in 1..Len(items) :
           (i < j /\ ItemOf(items[i]).kind = ItemOf(items[j]).kind)
               => place(ItemOf(items[i])) <= place(ItemOf(items[j]))

\* the place of an item in the stated order
StatedPlace(it) == it.slot
\* the place of an item in the order of the generator applied:
\* generateFallbackIntervention tests stress_level before emotional_sentiment
GeneratorPlace(it) ==
    IF fn = "local" /\ it.field = "stress_level" THEN 5
    ELSE it.slot

RECURSIVE SumOver(_, _)
SumOver(features, names) ==
    IF names = {} THEN 0
    ELSE LET n == CHOOSE n \in names : TRUE
         IN  features[n] + SumOver(features, names \ {n})

FeaturesSum == SumOver(result.shap_explanation.features,
                       DOMAIN result.shap_explanation.features)

\* the result carries a shap_explanation
Explained == result # None /\ "shap_explanation" \in DOMAIN result

\* the clamp the variant applies to the sum
VariantClamp(x) ==
    CASE fn = "v1" -> MockClamp(x)
      [] fn = "v2" -> ClampV2(x)
      [] fn = "v3" -> ClampV3(x)
      [] fn = "v5" -> ClampV5(x)
      [] fn = "v6" -> ClampV6(x)

\* the sum lies within the bounds of the variant's clamp
WithinClamp == VariantClamp(RawScore) = RawScore

\* the shap_explanation has a total_contribution
HasTotal == "total_contribution" \in DOMAIN result.shap_explanation

\* C25 as stated: in every variant that returns a shap_explanation the entries
\* of features sum to the score before clamping, and total_contribution equals
\* that sum whenever the sum lies within the clamping bounds.
C25_ContributionsAsStated ==
    Explained =>
        /\ FeaturesSum = RawScore
        /\ WithinClamp =>
              HasTotal /\ result.shap_explanation.total_contribution = FeaturesSum

\* C25, amended: the entries of features sum to the score before clamping in
\* every variant that returns a shap_explanation; v1.0 returns the entries
\* alone, and in the other variants total_contribution equals the sum
\* whenever the sum lies within the clamping bounds.
C25_Contributions ==
    Explained =>
        /\ FeaturesSum = RawScore
        /\ HasTotal <=> fn # "v1"
        /\ (HasTotal /\ WithinClamp) =>
              result.shap_explanation.total_contribution = FeaturesSum

\* a v6.0 result from a record whose sum is inside the clamp, and whose
\* returned score is rounded away from it
C25_Witness ==
    /\ Explained /\ fn = "v6" /\ studentData # None
    /\ WithinClamp
    /\ result.shap_explanation.total_contribution = FeaturesSum
    /\ result.predicted_score # FeaturesSum

\* ---- C26 ----
\* C26: in every scoring variant the risk_level returned agrees with the
\* predicted_score returned (rounded to 2 decimals): it is high exactly when
\* the returned score is below 8, so a returned 8.00 or more is never high.
C26_RiskAgreesWithReturned ==
    result # None =>
        (result.risk_level = "high" <=> result.predicted_score < 80000)

\* ---- C27 ----
\* the handler ended after a dispatch with no row in predictions: the insert
\* of the prediction failed
InsertFailed == Dispatched /\ pc = "done" /\ predictions = <<>>

\* C27: when storing the prediction row fails the handler answers 500 with an
\* error body, inserts no alert (whatever the risk_level) and returns no
\* prediction; an alert is only ever inserted after the prediction insert
\* succeeded.
C27_InsertFailure ==
    /\ InsertFailed =>
          /\ response.status = 500
          /\ "error" \in DOMAIN response.body
          /\ "prediction" \notin DOMAIN response.body
          /\ alerts = <<>>
    /\ alerts # <<>> => predictions # <<>>

\* the insert of a high-risk prediction failed
C27_Witness ==
    /\ InsertFailed
    /\ prediction.risk_level = "high"
    /\ response.status = 500

\* ---- C28 ----
\* the alerts whose update request is in flight
UpdatesInFlight == { a \in AlertIds : resolves[a].phase = "in_flight" }

\* the panel is looked at
PanelMounted == pc = "panel"

\* an id is in the set exactly while its request is in flight, and
\* onAlertsUpdate was called once by a request that succeeded, never by one
\* that failed
ResolvingWhileInFlight ==
    PanelMounted =>
        /\ resolvingAlerts = UpdatesInFlight
        /\ \A a \in AlertIds :
              resolves[a].updates = IF resolves[a].phase = "resolved" THEN 1 ELSE 0

\* a completion takes its own id out of the set and leaves the others in it
OwnIdRemoved ==
    PanelMounted =>
        \A a \in AlertIds :
           (resolves[a].phase = "in_flight" /\ resolves'[a].phase # "in_flight")
               => resolvingAlerts' = resolvingAlerts \ {a}

PageMounted == pc = "page"

\* a call of fetchData has started and not finished
FetchInFlight == \E n \in 1..Len(fetches) : fetches[n].phase # "done"

\* every call ran to its end without throwing
AllFetched ==
    /\ fetches # <<>>
    /\ \A n \in 1..Len(fetches) :
          fetches[n].phase = "done" /\ fetches[n].students # "error"

\* C29: whenever at least one fetchData call is in flight the loading flag is
\* true, also when a second call starts before the first has finished; and
\* once all calls have finished the students, predictions and alerts shown are
\* those of the call that started last.
C29_LoadingAndLastCall ==
    PageMounted =>
        /\ FetchInFlight => dashboard.loading
        /\ AllFetched =>
              /\ dashboard.students = Len(fetches)
              /\ dashboard.predictions = Len(fetches)
              /\ dashboard.alerts = Len(fetches)

\* ---- C30 ----
\* a call of handlePredict is in flight: it awaits an insert, or the function
InFlightPcs ==
    { "form_inserting", "form_stored", "form_alerted",
      "invoking", "fetching", "dispatched", "stored", "alerted", "done" }

\* the form is looked at
FormMounted == fn \in Forms \cup {"colab"} /\ pc \notin {"idle"}

\* the prediction the form displays
Displayed == IF fn = "colab" THEN result ELSE prediction

\* the validation of handlePredict fails on the form's state
ValidationFails == pc = "form" /\ Rejection # ""

\* loading is true exactly while the call is in flight; a call that ended with
\* no row stored left no alert, the display as it was, and the parent
\* uncalled; a call that ended with its row stored called the parent
PredictOutcome ==
    FormMounted =>
        /\ loading <=> pc \in InFlightPcs
        /\ (pc = "form_done" /\ predictions = <<>>) =>
              alerts = <<>> /\ Displayed = None /\ ~completed
        /\ (pc = "form_done" /\ predictions # <<>>) => completed
        /\ completed => pc = "form_done" /\ predictions # <<>>

\* while the validation fails no step inserts, changes loading or the display,
\* or calls the parent; and the parent is called in the last step of the call
PredictStep ==
    /\ ValidationFails =>
          UNCHANGED <<predictions, alerts, loading, prediction, result, completed>>
    /\ completed' # completed =>
          ~completed /\ pc # "form_done" /\ pc' = "form_done"

\* C30: in every form's handlePredict a failed validation inserts nothing and
\* leaves loading, the prediction and the parent alone; otherwise loading is
\* true exactly while the request is in flight and false after it on every
\* path; when the predictions insert fails no alert is inserted, the displayed
\* prediction is unchanged and onPredictionComplete is not called; on success
\* onPredictionComplete is called exactly once, after the inserts.
C30_HandlePredict ==
    /\ []PredictOutcome
    /\ [][PredictStep]_vars

\* the function's insert of a high-risk prediction failed and the colab form
\* ended its loading with nothing displayed
C30_Witness ==
    /\ fn = "colab" /\ pc = "form_done"
    /\ response # None /\ response.status = 500
    /\ prediction # None /\ prediction.risk_level = "high"
    /\ predictions = <<>> /\ alerts = <<>>
    /\ ~loading /\ ~completed /\ result = None

====
